---------------------------- MODULE Spec2Model ----------------------------
(***************************************************************************)
(* A model of wink-rtsp-bench: the RTP sequence tracker and aggregator     *)
(* (internal/rtp), the RTSP client session (internal/rtsp) and the part of *)
(* the fixed-mode runner (internal/bench) that owns the session tasks.     *)
(*                                                                         *)
(* Two specifications share the module:                                    *)
(*   SpecSeq  drives one SeqTracker with a bounded stream of sequence      *)
(*            numbers (the tracker is a pure function of its inputs);      *)
(*   Spec     runs the session tasks, their keep-alive goroutines, the     *)
(*            server end of the control connection and Runner.Run.         *)
(***************************************************************************)
EXTENDS Integers, Sequences, FiniteSets, TLC

\* ------------------------------------------------------------- bounds --
\* pushes made on the tracker under SpecSeq
MaxPushes == 3

\* uint16 modulus, the 0x8000 half-range threshold of updateSequence
SeqMod == 65536
HalfRange == 32768

\* sequence numbers offered to the tracker under SpecSeq: values around the
\* examples of the specification, the half-range and the 16-bit wrap
SeqInputs == {0, 1, 2, 99, 100, 101, 105, 32767, 32768, 32868, 65533, 65534, 65535}

\* session tasks the runner dispatches under Spec (Config.Readers)
NumSessions == 2
\* keep-alive ticks delivered in a run with one session, over all sessions;
\* every further session of the run takes one tick from that budget
MaxKeepAlives == 2
\* deviations from the cooperative run (an error status, a response without
\* Session header, a connection closed by the server, a failed datagram
\* read, a session running into its own deadline) in one run
MaxFaults == 1
\* RTP packets the server sends in one run, over all sessions
MaxPackets == 3
\* responses and interleaved frames in flight on one control connection
MaxRx == 1
\* connections the real-world simulator starts in one run
MaxRWConns == 1
\* SpecRamp: iterations of the spawner's loop that are followed
MaxRamp == 1001
\* SpecRamp: spawned sessions that have not finished their Connect yet (the
\* rate limiter paces the spawner, the server answers promptly)
MaxPending == 2

\* the largest target of the runs in which the spawner is followed step by step
MaxSpawnReaders == 4

\* SpecCtl: the session tasks of the simulator that are alive at a time
MaxCtlTasks == 52
\* SpecCtl: the tasks that are at a time between activeConnects.Add(1) and
\* their store into the connections map
MaxCtlCounted == 2

\* SpecFrames: interleaved frames the server sends
MaxFrames == 3
\* SpecAdapt: the session tasks that fail during the ramp-up
MaxAdaptFailures == 4

\* one connection per second in the unit of the limiter's rate (1/1000 per
\* second)
PerSecond == 1000

\* NewRunner's initial minLatency
NoLatency == 99999999
\* the capacity runConnection gives the latency sample buffer
MaxSamples == 10000

\* runConnection's maxRetries
maxRetries == 3
\* shortest payload handed to RTP processing
MinRTPLen == 12

Sessions == 1..NumSessions
KAs == 1..MaxKeepAlives
\* the configurations of a run: fixed-target mode with Readers sessions, or
\* the real-world simulation (Readers is not used there)
Configs ==
    [Transport : {"tcp", "udp"}, Readers : Sessions, RealWorld : {FALSE}]
    \cup [Transport : {"tcp", "udp"}, Readers : {1}, RealWorld : {TRUE}]
\* SpecRamp: the targets (Config.Readers) of the ramps, around the
\* thresholds of NewRunner
RampReaders ==
    {1, 3, 9999, 10000, 10001, 10009, 20000, 99999, 100000, 499999, 500000,
     500010, 600000}
\* the values the load pattern generator stores in targetConnects
Targets == 0..MaxRWConns
\* keep-alive ticks delivered in a run with the given number of sessions
MaxTicks(readers) == IF MaxKeepAlives >= readers THEN MaxKeepAlives + 1 - readers ELSE 0

\* the sequence numbers the server puts into RTP packets: a duplicate
\* (1, 1), a gap (1, 4) and a reordered packet (4, 1) all occur
FrameSeqs == {1, 4}
\* the interleaved frames the server sends: RTP on channel 0, a frame on
\* the RTCP channel 1, a payload too short for an RTP header
Frames ==
    {[ch |-> 0, seq |-> q, len |-> MinRTPLen] : q \in FrameSeqs}
    \cup {[ch |-> 1, seq |-> 1, len |-> MinRTPLen],
          [ch |-> 0, seq |-> 1, len |-> MinRTPLen - 4]}
\* the datagrams the server sends to the RTP port
Datagrams == {f \in Frames : f.ch = 0}
\* the frames and datagrams the client hands to processRTPPacket; MaxPackets
\* bounds these (the others leave no trace in the client)
IsRTP(f) == f.ch = 0 /\ f.len >= MinRTPLen

VARIABLES
    config,     \* bench.Config: Transport ("tcp" or "udp"), Readers, RealWorld
    client,     \* client[c]: the fields of rtsp.Client of session c
    task,       \* task[c]: the session goroutine (runConnection / Client.Run)
    ka,         \* ka[c]: keep-alive ticker, goroutines and error channel
    wire,       \* wire[c]: the control connection and the server behind it
    agg,        \* the shared rtp.Aggregator
    runner,     \* Runner: counters, wait group, Run and the spawner
    env,        \* run-level cancel and the packets sent so far
    trk,        \* SpecSeq: the SeqTracker under test
    prevTrk,    \* SpecSeq: the tracker before the last Push
    pushSeq,    \* SpecSeq: the argument of the last Push (-1: none yet)
    pushRet,    \* SpecSeq: the value the last Push returned
    npush       \* SpecSeq: number of Push calls made

seqVars == <<trk, prevTrk, pushSeq, pushRet, npush>>
runVars == <<config, client, task, ka, wire, agg, runner, env>>
vars == <<runVars, seqVars>>

\* ------------------------------------------------- rtp.SeqTracker -------
\* NewSeqTracker: the zero value of the struct. baseSeq, badSeq and
\* probation are written by initSequence and never read: they are left out.
NewSeqTracker ==
    [initialized |-> FALSE, lastSeq |-> 0, totalLost |-> 0, totalPkts |-> 0,
     cycles |-> 0, maxSeq |-> 0]

\* uint16(a - b)
Sub16(a, b) == (a - b) % SeqMod

\* initSequence(seq)
initSequence(s, seq) ==
    [s EXCEPT !.maxSeq = seq, !.lastSeq = seq, !.cycles = 0,
              !.initialized = TRUE, !.totalPkts = 1]

\* updateSequence with the forward gap counted as delta instead of delta - 1
updateSequence_gapOffByOne(s, seq) ==
    LET udelta == Sub16(seq, s.lastSeq)
        lost == IF udelta < HalfRange /\ udelta > 0 THEN udelta ELSE 0
    IN  [lost |-> lost,
         t |-> [s EXCEPT !.totalLost = @ + lost, !.lastSeq = seq,
                         !.totalPkts = @ + 1]]

\* updateSequence counting a packet only when it moves the sequence forward:
\* a duplicate or reordered packet leaves total_packets alone
updateSequence_countsForwardOnly(s, seq) ==
    LET udelta == Sub16(seq, s.lastSeq)
        lost == IF udelta > 1 THEN udelta - 1 ELSE 0
    IN  IF udelta < HalfRange /\ udelta > 0
        THEN [lost |-> lost,
              t |-> [s EXCEPT !.totalLost = @ + lost, !.lastSeq = seq,
                              !.maxSeq = seq, !.totalPkts = @ + 1]]
        ELSE [lost |-> 0, t |-> s]

\* updateSequence(seq): the tracker afterwards and the value returned.
\* cycles and the uint64 totals stay far below their widths within the
\* bounds of the model, so only the uint16 arithmetic is reduced.
updateSequence(s, seq) ==
    LET udelta == Sub16(seq, s.lastSeq)
        fwdLost == IF udelta > 1 THEN udelta - 1 ELSE 0
        fwdCycles == IF seq < s.lastSeq THEN s.cycles + 1 ELSE s.cycles
        actualDelta == (SeqMod - s.lastSeq) + seq
        farLost == IF actualDelta > 1 THEN actualDelta - 1 ELSE 0
        body ==
            IF udelta < HalfRange
            THEN IF udelta > 0
                 THEN [lost |-> fwdLost,
                       t |-> [s EXCEPT !.totalLost = @ + fwdLost,
                                       !.cycles = fwdCycles,
                                       !.maxSeq = fwdCycles * SeqMod + seq]]
                 ELSE [lost |-> 0, t |-> s]
            ELSE IF Sub16(s.lastSeq, seq) < HalfRange
                 THEN [lost |-> 0, t |-> s]
                 ELSE [lost |-> farLost,
                       t |-> [s EXCEPT !.cycles = @ + 1,
                                       !.maxSeq = (s.cycles + 1) * SeqMod + seq,
                                       !.totalLost = @ + farLost]]
    IN  [lost |-> body.lost,
         t |-> [body.t EXCEPT !.lastSeq = seq, !.totalPkts = @ + 1]]

\* Push(seq)
Push(s, seq) ==
    IF ~s.initialized
    THEN [lost |-> 0, t |-> initSequence(s, seq)]
    ELSE updateSequence(s, seq)

\* ------------------------------------------------- rtp.Aggregator -------
NewAggregator == [packets |-> 0, lost |-> 0, bytes |-> 0]

\* AddPackets(n), AddLoss(n), AddBytes(n): one atomic add, nothing for n = 0
AddPackets(a, n) == IF n > 0 THEN [a EXCEPT !.packets = @ + n] ELSE a
AddLoss(a, n) == IF n > 0 THEN [a EXCEPT !.lost = @ + n] ELSE a
AddBytes(a, n) == IF n > 0 THEN [a EXCEPT !.bytes = @ + n] ELSE a

\* ------------------------------------------------- rtsp.Client ----------
\* NewClient: cseq starts at 1, a fresh tracker, nothing connected
NewClient ==
    [conn |-> "nil", rtpConn |-> "nil", session |-> "", cseq |-> 1,
     closed |-> FALSE, mu |-> "free", tracker |-> NewSeqTracker]

NoReq == [m |-> "none", cseq |-> 0, sess |-> ""]

\* the session goroutine before it is spawned
NewTask ==
    [pc |-> "idle", req |-> NoReq, retry |-> 0, pend |-> 0,
     runErr |-> "none", ctxDone |-> FALSE, ctxAtExit |-> FALSE, handed |-> 0,
     inMap |-> FALSE]

NewKeepAlive ==
    [g |-> [k \in KAs |-> "none"], req |-> [k \in KAs |-> NoReq],
     tickC |-> FALSE, errCh |-> FALSE, nticks |-> 0, stop |-> FALSE]

NewWire ==
    [rx |-> <<>>, tx |-> <<>>, answered |-> 0, playing |-> FALSE,
     srvClosed |-> FALSE]

\* buildRequest / buildTrackRequest: the request carries the current CSeq
\* and the headers the caller passes; cseq is incremented by the caller of
\* this operator in the same step
buildRequest(cl, m) ==
    [m |-> m, cseq |-> cl.cseq,
     sess |-> IF m \in {"OPTIONS", "DESCRIBE", "SETUP0"} THEN "" ELSE cl.session]

\* reportStats: the tracker's whole total_lost is added to the aggregator
reportStats(a, cl) == AddLoss(a, cl.tracker.totalLost)

\* the result of readResponse on the token at the head of the stream: an
\* interleaved frame is no "RTSP/1.0" status line, a status >= 400 is an error
ResponseOK(tok) == tok.k = "resp" /\ tok.ok

\* -------------------------------------------------- bench.Runner -------
\* NewRunner's maxConcurrent, the capacity of the semaphore channel
maxConcurrent(readers) ==
    IF readers > 10000
    THEN IF readers \div 10 > 50000 THEN 50000 ELSE readers \div 10
    ELSE 10000

\* NewRunner and the start of Run: zero counters, an empty semaphore,
\* wg.Add(1) for the spawner, Run waiting in <-runCtx.Done()
NewRunner ==
    [pc |-> "waitctx", spawner |-> "run", gen |-> "none", created |-> 0,
     wg |-> 1, semaphore |-> 0, active |-> 0, badClients |-> 0,
     totalConnects |-> 0, totalFailures |-> 0]

\* NewRealWorldSimulator and the start of its Run: wg.Add(1) for the load
\* pattern generator (gen) and for the connection manager (spawner), Run
\* waiting in <-ctx.Done()
NewRealWorldSimulator == [NewRunner EXCEPT !.gen = "run", !.wg = 2]

\* a session task that returns with its semaphore slot still taken
TaskReturns_keepsSlot(r) == [r EXCEPT !.wg = @ - 1]

\* the deferred calls every session task starts with: the semaphore slot is
\* released and wg.Done is called when the task returns
TaskReturns(r) == [r EXCEPT !.semaphore = @ - 1, !.wg = @ - 1]

\* -------------------------------------------------- initial states ------
InitTrk ==
    /\ trk = NewSeqTracker
    /\ prevTrk = NewSeqTracker
    /\ pushSeq = -1
    /\ pushRet = 0
    /\ npush = 0

\* the sessions, the aggregator and the orchestrator of the configured mode
InitState ==
    /\ client = [c \in Sessions |-> NewClient]
    /\ task = [c \in Sessions |-> NewTask]
    /\ ka = [c \in Sessions |-> NewKeepAlive]
    /\ wire = [c \in Sessions |-> NewWire]
    /\ agg = NewAggregator
    /\ runner = IF config.RealWorld THEN NewRealWorldSimulator ELSE NewRunner
    /\ env = [cancelled |-> FALSE, pktsSent |-> 0, ticks |-> 0, faults |-> 0]

InitRun == config \in Configs /\ InitState

Init == InitRun /\ InitTrk

InitSeq == InitTrk /\ InitRun /\ config = [Transport |-> "tcp", Readers |-> 1, RealWorld |-> FALSE]

\* -------------------------------------------------- SpecSeq -------------
\* one call of tracker.Push with an arbitrary sequence number
DoPush ==
    /\ npush < MaxPushes
    /\ \E seq \in SeqInputs :
          LET r == Push(trk, seq) IN
          /\ trk' = r.t
          /\ prevTrk' = trk
          /\ pushSeq' = seq
          /\ pushRet' = r.lost
    /\ npush' = npush + 1
    /\ UNCHANGED runVars

NextSeq == DoPush

SpecSeq == InitSeq /\ [][NextSeq]_vars

\* -------------------------------------------------- SpecRamp ------------
\* The ramp of a fixed-target run with targets far above the number of
\* session records: the sessions are counted, not told apart. The server
\* cooperates, nothing is cancelled and the lifetime of a session is
\* longer than the ramp, so every Connect succeeds at its first attempt
\* and no session returns.
InitRamp ==
    /\ config \in [Transport : {"tcp"}, Readers : RampReaders, RealWorld : {FALSE}]
    /\ InitState
    /\ InitTrk

\* spawnConnections, one iteration: a semaphore slot is acquired (the send
\* blocks while the channel is full), wg.Add(1), go runConnection
RampSpawn ==
    /\ runner.spawner = "run"
    /\ runner.created < config.Readers
    /\ runner.created < MaxRamp
    /\ runner.created - runner.totalConnects < MaxPending
    /\ runner.semaphore < maxConcurrent(config.Readers)
    /\ runner' = IF runner.created + 1 = config.Readers
                 THEN [runner EXCEPT !.created = @ + 1, !.semaphore = @ + 1,
                                     !.spawner = "done"]
                 ELSE [runner EXCEPT !.created = @ + 1, !.semaphore = @ + 1,
                                     !.wg = @ + 1]
    /\ UNCHANGED <<config, client, task, ka, wire, agg, env, seqVars>>

\* runConnection of one of the spawned sessions: Connect succeeds,
\* totalConnects.Add(1), activeConnects.Add(1), client.Run streams
RampConnect ==
    /\ runner.totalConnects < runner.created
    /\ runner' = [runner EXCEPT !.totalConnects = @ + 1, !.active = @ + 1]
    /\ UNCHANGED <<config, client, task, ka, wire, agg, env, seqVars>>

NextRamp == RampSpawn \/ RampConnect

\* the goroutines of the ramp are scheduled as long as they can run
SpecRamp == InitRamp /\ [][NextRamp]_vars /\ WF_vars(NextRamp)

\* -------------------------------------------------- Runner --------------
\* runConnection's epilogue without the deferred activeConnects.Add(-1)
AfterRun_keepsActive(r, err) ==
    TaskReturns([r EXCEPT !.totalFailures = IF err = "error" THEN @ + 1 ELSE @])

\* runConnection's epilogue after client.Run returned err: count a failure
\* unless err is nil, DeadlineExceeded or Canceled; the deferred
\* activeConnects.Add(-1), semaphore release and wg.Done
AfterRun(r, err) ==
    TaskReturns([r EXCEPT !.totalFailures = IF err = "error" THEN @ + 1 ELSE @,
                          !.active = @ - 1])

\* addConnection after client.Run returned err: the same failure count, the
\* connection leaves the map (the caller clears inMap), then
\* activeConnects.Add(-1) and the deferred wg.Done
AfterConnection(r, err) ==
    [r EXCEPT !.totalFailures = IF err = "error" THEN @ + 1 ELSE @,
              !.active = @ - 1,
              !.wg = @ - 1]

\* spawnConnections: a semaphore slot is acquired, then one more session
\* goroutine is started (wg.Add(1); go runConnection, or go runBadClient
\* when bad clients are included and the draw falls below BadClientRatio);
\* after the last one the spawner returns (wg.Done). Config.IncludeBadClients
\* is set and 0 < BadClientRatio < 1: the runs without bad clients are the
\* runs in which no draw picks one.
Spawn ==
    /\ ~config.RealWorld
    /\ runner.spawner = "run"
    /\ ~env.cancelled
    /\ runner.created < config.Readers
    /\ runner.semaphore < maxConcurrent(config.Readers)
    /\ LET c == runner.created + 1 IN
       /\ \E kind \in {"connect", "bad"} :
             task' = [task EXCEPT ![c].pc = kind]
       /\ runner' = IF c = config.Readers
                    THEN [runner EXCEPT !.created = c, !.semaphore = @ + 1,
                                        !.spawner = "done"]
                    ELSE [runner EXCEPT !.created = c, !.semaphore = @ + 1,
                                        !.wg = @ + 1]
    /\ UNCHANGED <<config, client, ka, wire, agg, env, seqVars>>

\* spawnConnections sees the cancelled context (at the loop head, in
\* limiter.Wait or at the semaphore) and returns: wg.Done
SpawnerCancelled ==
    /\ ~config.RealWorld
    /\ runner.spawner = "run"
    /\ env.cancelled
    /\ runner' = [runner EXCEPT !.spawner = "done", !.wg = @ - 1]
    /\ UNCHANGED <<config, client, task, ka, wire, agg, env, seqVars>>

\* Run returning after <-runCtx.Done() without wg.Wait()
RunnerReturn_withoutWait ==
    /\ runner.pc = "wgwait"
    /\ runner' = [runner EXCEPT !.pc = "returned"]
    /\ UNCHANGED <<config, client, task, ka, wire, agg, env, seqVars>>

\* Runner.Run after <-runCtx.Done(): wg.Wait() returns and Run returns
RunnerReturn ==
    /\ runner.pc = "wgwait"
    /\ runner.wg = 0
    /\ runner' = [runner EXCEPT !.pc = "returned"]
    /\ UNCHANGED <<config, client, task, ka, wire, agg, env, seqVars>>

\* the run-level context is cancelled: every session context is done and
\* Runner.Run passes <-runCtx.Done() to wait in wg.Wait()
Cancel ==
    /\ ~env.cancelled
    /\ env' = [env EXCEPT !.cancelled = TRUE]
    /\ task' = [c \in Sessions |-> [task[c] EXCEPT !.ctxDone = TRUE]]
    /\ runner' = [runner EXCEPT !.pc = "wgwait"]
    /\ UNCHANGED <<config, client, ka, wire, agg, seqVars>>

\* the per-session timeout (context.WithTimeout(ctx, Duration)) expires.
\* The session reads its context only in the selects of the media loop and
\* after a failed media read, so the expiry is taken there.
Deadline(c) ==
    /\ task[c].pc \in {"loop", "frame", "uloop", "uread"}
    /\ ~task[c].ctxDone
    /\ env.faults < MaxFaults
    /\ task' = [task EXCEPT ![c].ctxDone = TRUE]
    /\ env' = [env EXCEPT !.faults = @ + 1]
    /\ UNCHANGED <<config, client, ka, wire, agg, runner, seqVars>>

\* runConnection, one pass of the retry loop: return on a cancelled context;
\* a failed Connect backs off and retries, the third failure is counted;
\* a successful Connect leaves the loop (its variable retry goes out of
\* scope), updates the counters and enters client.Run, whose first request
\* (OPTIONS) is built
Connect(c) ==
    /\ task[c].pc = "connect"
    /\ \/ /\ env.cancelled
          /\ task' = [task EXCEPT ![c].pc = "exited"]
          /\ runner' = TaskReturns(runner)
          /\ UNCHANGED <<client>>
       \/ /\ ~env.cancelled
          /\ IF task[c].retry = maxRetries - 1
             THEN /\ task' = [task EXCEPT ![c].pc = "exited"]
                  /\ runner' = TaskReturns([runner EXCEPT !.totalFailures = @ + 1])
             ELSE /\ task' = [task EXCEPT ![c].retry = @ + 1]
                  /\ UNCHANGED runner
          /\ UNCHANGED <<client>>
       \/ /\ ~env.cancelled
          /\ client' = [client EXCEPT ![c].conn = "open", ![c].cseq = @ + 1]
          /\ task' = [task EXCEPT ![c].pc = "send",
                                  ![c].retry = 0,
                                  ![c].req = buildRequest(client[c], "OPTIONS")]
          /\ runner' = [runner EXCEPT !.totalConnects = @ + 1,
                                      !.active = @ + 1]
    /\ UNCHANGED <<config, ka, wire, agg, env, seqVars>>

\* -------------------------------------------------- SpecSpawn -----------
\* spawnConnections step by step, with the session tasks counted and not
\* told apart: a task that was dispatched (runConnection or runBadClient)
\* holds its semaphore slot and its wg count until it returns. The live
\* tasks are the wg counts that are not the spawner's.
LiveTasks == runner.wg - (IF runner.spawner = "done" THEN 0 ELSE 1)

InitSpawn ==
    /\ config \in [Transport : {"tcp"}, Readers : 1..MaxSpawnReaders, RealWorld : {FALSE}]
    /\ InitState
    /\ InitTrk

\* the loop condition, the ctx.Err() check and limiter.Wait(ctx): with all
\* connections created the loop ends (wg.Done); otherwise a token of the
\* limiter is taken, which a cancelled context refuses
SpawnWait ==
    /\ runner.spawner = "run"
    /\ ~env.cancelled
    /\ runner.created < config.Readers
    /\ runner' = [runner EXCEPT !.spawner = "limited"]
    /\ UNCHANGED <<config, client, task, ka, wire, agg, env, seqVars>>

\* a semaphore taken before the token of the limiter
SpawnAcquire_beforeLimiter ==
    /\ runner.spawner \in {"run", "limited"}
    /\ runner.created < config.Readers
    /\ runner.semaphore < maxConcurrent(config.Readers)
    /\ runner' = [runner EXCEPT !.spawner = "acquired", !.semaphore = @ + 1]
    /\ UNCHANGED <<config, client, task, ka, wire, agg, env, seqVars>>

\* the select on the semaphore: the send succeeds when the channel has room
\* (also with the context done: select takes either ready case)
SpawnAcquire ==
    /\ runner.spawner = "limited"
    /\ runner.semaphore < maxConcurrent(config.Readers)
    /\ runner' = [runner EXCEPT !.spawner = "acquired", !.semaphore = @ + 1]
    /\ UNCHANGED <<config, client, task, ka, wire, agg, env, seqVars>>

\* wg.Add(1), go runBadClient or go runConnection, connectionsCreated++;
\* after the last one the loop ends and the spawner returns (wg.Done)
SpawnGo ==
    /\ runner.spawner = "acquired"
    /\ runner' = IF runner.created + 1 = config.Readers
                 THEN [runner EXCEPT !.created = @ + 1, !.spawner = "done"]
                 ELSE [runner EXCEPT !.created = @ + 1, !.wg = @ + 1,
                                     !.spawner = "run"]
    /\ UNCHANGED <<config, client, task, ka, wire, agg, env, seqVars>>

\* the spawner sees the cancelled context, at the loop head or in
\* limiter.Wait or at the semaphore, and returns: wg.Done
SpawnStop ==
    /\ runner.spawner \in {"run", "limited"}
    /\ env.cancelled
    /\ runner' = [runner EXCEPT !.spawner = "done", !.wg = @ - 1]
    /\ UNCHANGED <<config, client, task, ka, wire, agg, env, seqVars>>

\* one of the dispatched tasks returns: its deferred semaphore release and
\* wg.Done
TaskExit ==
    /\ LiveTasks > 0
    /\ runner' = TaskReturns(runner)
    /\ UNCHANGED <<config, client, task, ka, wire, agg, env, seqVars>>

NextSpawn ==
    \/ SpawnWait \/ SpawnAcquire \/ SpawnGo \/ SpawnStop \/ TaskExit
    \/ Cancel \/ RunnerReturn

SpecSpawn == InitSpawn /\ [][NextSpawn]_vars

\* ------------------------------------------- RealWorldSimulator ---------
Min(a, b) == IF a < b THEN a ELSE b

\* manageConnections receives a tick (also when the context is done as
\* well: select takes either) and runs adjustConnections with the target
\* the generator stored last: up to 50 addConnection goroutines are started
\* (wg.Add(1) each, their context derived from ctx), or removeConnections
\* cancels up to 20 connections of the map and deletes them
RWAdjust ==
    /\ config.RealWorld
    /\ runner.spawner = "run"
    /\ \E target \in Targets :
          LET diff == target - runner.active IN
          \/ /\ diff > 0
             /\ LET toAdd == Min(diff, 50) IN
                /\ runner.created + toAdd <= MaxRWConns
                /\ task' = [c \in Sessions |->
                               IF c > runner.created /\ c <= runner.created + toAdd
                               THEN [task[c] EXCEPT !.pc = "rwconnect",
                                                    !.ctxDone = env.cancelled]
                               ELSE task[c]]
                /\ runner' = [runner EXCEPT !.created = @ + toAdd,
                                            !.wg = @ + toAdd]
          \/ /\ diff < 0
             /\ LET stored == {c \in Sessions : task[c].inMap}
                    toRemove == Min(Min(-diff, 20), Cardinality(stored)) IN
                /\ toRemove > 0
                /\ \E R \in SUBSET stored :
                      /\ Cardinality(R) = toRemove
                      /\ task' = [c \in Sessions |->
                                     IF c \in R
                                     THEN [task[c] EXCEPT !.ctxDone = TRUE,
                                                          !.inMap = FALSE]
                                     ELSE task[c]]
                /\ UNCHANGED runner
    /\ UNCHANGED <<config, client, ka, wire, agg, env, seqVars>>

\* manageConnections sees the cancelled context: closeAllConnections
\* cancels every connection of the map and clears it, then wg.Done
RWManagerStop ==
    /\ config.RealWorld
    /\ runner.spawner = "run"
    /\ env.cancelled
    /\ task' = [c \in Sessions |->
                   IF task[c].inMap
                   THEN [task[c] EXCEPT !.ctxDone = TRUE, !.inMap = FALSE]
                   ELSE task[c]]
    /\ runner' = [runner EXCEPT !.spawner = "done", !.wg = @ - 1]
    /\ UNCHANGED <<config, client, ka, wire, agg, env, seqVars>>

\* generateLoadPattern sees the cancelled context and returns: wg.Done
RWGenStop ==
    /\ runner.gen = "run"
    /\ env.cancelled
    /\ runner' = [runner EXCEPT !.gen = "done", !.wg = @ - 1]
    /\ UNCHANGED <<config, client, task, ka, wire, agg, env, seqVars>>

\* addConnection up to client.Run: a failed NewClient or Connect is counted
\* and the task returns; after a successful Connect the counters are
\* updated, the connection is stored in the map and client.Run is entered
RWConnect(c) ==
    /\ task[c].pc = "rwconnect"
    /\ \/ /\ task' = [task EXCEPT ![c].pc = "exited"]
          /\ runner' = [runner EXCEPT !.totalFailures = @ + 1, !.wg = @ - 1]
          /\ UNCHANGED client
       \/ /\ client' = [client EXCEPT ![c].conn = "open", ![c].cseq = @ + 1]
          /\ task' = [task EXCEPT ![c].pc = "send",
                                  ![c].inMap = TRUE,
                                  ![c].req = buildRequest(client[c], "OPTIONS")]
          /\ runner' = [runner EXCEPT !.totalConnects = @ + 1,
                                      !.active = @ + 1]
    /\ UNCHANGED <<config, ka, wire, agg, env, seqVars>>

\* -------------------------------------------------- SpecLoad ------------
\* generateLoadPattern and adjustTargetLoad. The floating-point factors are
\* taken in fixed point: the variance in hundredths, the day factor in
\* tenths, the draw of rand.Float64() in thousandths; all values are
\* non-negative, so the truncation of int64() is the integer division.
Avgs == {1, 3, 10, 500}
VariancePercents == {0, 30, 50, 100}
Hours == {3, 7, 10, 12, 15, 20, 23}
Draws == {0, 250, 500, 750, 999}

\* adjustTargetLoad's dayFactor for time.Now().Hour(), in tenths
dayFactor(hour) ==
    CASE hour >= 9 /\ hour <= 11 -> 12
      [] hour >= 12 /\ hour <= 13 -> 9
      [] hour >= 14 /\ hour <= 17 -> 11
      [] hour >= 18 /\ hour <= 22 -> 13
      [] hour >= 23 \/ hour <= 5 -> 6
      [] OTHER -> 8

\* minTarget = int64(avg * (1 - variance)), maxTarget = int64(avg * (1 + variance))
minTarget(avg, variance) == (avg * (100 - variance)) \div 100
maxTarget(avg, variance) == (avg * (100 + variance)) \div 100

\* newTarget = int64(avg * dayFactor * randomFactor) with
\* randomFactor = 1 + (draw - 0.5) * variance
newTarget(avg, variance, hour, draw) ==
    (avg * dayFactor(hour) * (100000 + (draw - 500) * variance)) \div 1000000

\* adjustTargetLoad without its bounds
adjustTargetLoad_unbounded(avg, variance, hour, draw) ==
    newTarget(avg, variance, hour, draw)

\* adjustTargetLoad: the new target, held within minTarget and maxTarget
adjustTargetLoad(avg, variance, hour, draw) ==
    LET t == newTarget(avg, variance, hour, draw) IN
    IF t < minTarget(avg, variance) THEN minTarget(avg, variance)
    ELSE IF t > maxTarget(avg, variance) THEN maxTarget(avg, variance)
    ELSE t

\* RealWorldSimulator.Run has started its two goroutines; targetConnects
\* has its zero value until generateLoadPattern stores the initial target
InitLoad ==
    /\ config \in [Transport : {"tcp"}, Readers : {1}, RealWorld : {TRUE},
                   AvgConnections : Avgs, Variance : VariancePercents]
    /\ client = [c \in Sessions |-> NewClient]
    /\ task = [c \in Sessions |-> NewTask]
    /\ ka = [c \in Sessions |-> NewKeepAlive]
    /\ wire = [c \in Sessions |-> NewWire]
    /\ agg = NewAggregator
    /\ runner = [NewRealWorldSimulator EXCEPT !.gen = "start"] @@ [target |-> 0]
    /\ env = [cancelled |-> FALSE, pktsSent |-> 0, ticks |-> 0, faults |-> 0]
    /\ InitTrk

\* generateLoadPattern up to its loop: the initial target is AvgConnections
GenStart ==
    /\ runner.gen = "start"
    /\ runner' = [runner EXCEPT !.gen = "run", !.target = config.AvgConnections]
    /\ UNCHANGED <<config, client, task, ka, wire, agg, env, seqVars>>

\* generateLoadPattern receives a tick of its 10 s ticker (also with the
\* context done: select takes either) and runs adjustTargetLoad
GenAdjust ==
    /\ runner.gen = "run"
    /\ \E hour \in Hours, draw \in Draws :
          runner' = [runner EXCEPT !.target =
                        adjustTargetLoad(config.AvgConnections, config.Variance,
                                         hour, draw)]
    /\ UNCHANGED <<config, client, task, ka, wire, agg, env, seqVars>>

NextLoad == GenStart \/ GenAdjust \/ RWGenStop \/ Cancel

SpecLoad == InitLoad /\ [][NextLoad]_vars

\* -------------------------------------------------- SpecAdapt -----------
\* spawnConnections with its adaptive rate limiting. The limiter's rate is
\* a float64 in the code and a whole number of 1/1000 per second here,
\* rounded down; elapsed is time.Now() - lastCheck in whole seconds, and as
\* the code only asks whether it is above 2 s, 3 stands for everything
\* above. The dispatched tasks are counted (LiveTasks); one that returns
\* may have counted a failure.
AdaptRates == {500, 1100, 2000, 4000}
AdaptReaders == 21

InitAdapt ==
    /\ config \in [Transport : {"tcp"}, Readers : {AdaptReaders},
                   RealWorld : {FALSE}, Rate : AdaptRates]
    /\ client = [c \in Sessions |-> NewClient]
    /\ task = [c \in Sessions |-> NewTask]
    /\ ka = [c \in Sessions |-> NewKeepAlive]
    /\ wire = [c \in Sessions |-> NewWire]
    /\ agg = NewAggregator
    /\ runner = NewRunner @@
                [limit |-> config.Rate, elapsed |-> 0, lastFailures |-> 0,
                 checks |-> 0]
    /\ env = [cancelled |-> FALSE, pktsSent |-> 0, ticks |-> 0, faults |-> 0]
    /\ InitTrk

\* the adaptive block without the floor of one connection per second
adaptRate_withoutFloor(limit, failureDelta, rate) ==
    IF failureDelta > 10 \div 5
    THEN limit \div 2
    ELSE IF failureDelta = 0 /\ limit < rate
         THEN IF (limit * 12) \div 10 > rate THEN rate
              ELSE (limit * 12) \div 10
         ELSE limit

\* the limiter's rate after an adaptive check that found failureDelta new
\* failures (totalDelta is 10)
adaptRate(limit, failureDelta, rate) ==
    IF failureDelta > 10 \div 5
    THEN IF limit \div 2 < PerSecond THEN PerSecond ELSE limit \div 2
    ELSE IF failureDelta = 0 /\ limit < rate
         THEN IF (limit * 12) \div 10 > rate THEN rate
              ELSE (limit * 12) \div 10
         ELSE limit

\* the loop head: return on a cancelled context; every 10 connections, if
\* more than 2 s have passed since lastCheck, the rate is adapted to the
\* failures since the last check, and lastCheck and lastFailures are set
AdaptHead ==
    /\ runner.spawner = "run"
    /\ runner.created < config.Readers
    /\ IF env.cancelled
       THEN runner' = [runner EXCEPT !.spawner = "done", !.wg = @ - 1]
       ELSE IF /\ runner.created > 0
               /\ runner.created % 10 = 0
               /\ runner.elapsed > 2
            THEN runner' =
                    [runner EXCEPT
                        !.spawner = "limited",
                        !.limit = adaptRate(runner.limit,
                                     runner.totalFailures - runner.lastFailures,
                                     config.Rate),
                        !.elapsed = 0,
                        !.lastFailures = runner.totalFailures,
                        !.checks = @ + 1]
            ELSE runner' = [runner EXCEPT !.spawner = "limited"]
    /\ UNCHANGED <<config, client, task, ka, wire, agg, env, seqVars>>

\* the rest of the iteration: limiter.Wait and the semaphore (or the return
\* on a cancelled context), wg.Add(1), the go statement, connectionsCreated++;
\* after the last connection the spawner returns
AdaptDispatch ==
    /\ runner.spawner = "limited"
    /\ \/ /\ env.cancelled
          /\ runner' = [runner EXCEPT !.spawner = "done", !.wg = @ - 1]
       \/ /\ runner.semaphore < maxConcurrent(config.Readers)
          /\ runner' =
                IF runner.created + 1 = config.Readers
                THEN [runner EXCEPT !.created = @ + 1, !.semaphore = @ + 1,
                                    !.spawner = "done"]
                ELSE [runner EXCEPT !.created = @ + 1, !.semaphore = @ + 1,
                                    !.wg = @ + 1, !.spawner = "run"]
    /\ UNCHANGED <<config, client, task, ka, wire, agg, env, seqVars>>

\* a dispatched task returns, after counting a failure or not
AdaptTaskExit ==
    /\ LiveTasks > 0
    /\ \/ runner' = TaskReturns(runner)
       \/ /\ runner.totalFailures < MaxAdaptFailures
          /\ runner' = TaskReturns([runner EXCEPT !.totalFailures = @ + 1])
    /\ UNCHANGED <<config, client, task, ka, wire, agg, env, seqVars>>

\* a second passes
AdaptTime ==
    /\ runner.spawner # "done"
    /\ runner.elapsed < 3
    /\ runner' = [runner EXCEPT !.elapsed = @ + 1]
    /\ UNCHANGED <<config, client, task, ka, wire, agg, env, seqVars>>

NextAdapt ==
    \/ AdaptHead \/ AdaptDispatch \/ AdaptTaskExit \/ AdaptTime
    \/ Cancel \/ RunnerReturn

SpecAdapt == InitAdapt /\ [][NextAdapt]_vars

\* -------------------------------------------------- SpecLat -------------
\* the latency recording of runConnection, one atomic operation at a time,
\* for tasks whose Connect has just succeeded with the latency lat; old is
\* the value a task's compare-and-swap loop has loaded. The runner carries
\* connectLatency, connectCount, minLatency, maxLatency and the length of
\* the sample buffer.
Latencies == {0, 5, 9}

InitLat ==
    /\ config = [Transport |-> "tcp", Readers |-> NumSessions,
                 RealWorld |-> FALSE]
    /\ client = [c \in Sessions |-> [NewClient EXCEPT !.conn = "open"]]
    /\ \E lat \in [Sessions -> Latencies] :
          task = [c \in Sessions |->
                     [NewTask EXCEPT !.pc = "sum"] @@
                     [lat |-> lat[c], old |-> 0]]
    /\ ka = [c \in Sessions |-> NewKeepAlive]
    /\ wire = [c \in Sessions |-> NewWire]
    /\ agg = NewAggregator
    /\ runner = [NewRunner EXCEPT !.spawner = "done", !.wg = NumSessions,
                                  !.created = NumSessions,
                                  !.semaphore = NumSessions] @@
                [connectLatency |-> 0, connectCount |-> 0,
                 minLatency |-> NoLatency, maxLatency |-> 0, samples |-> 0]
    /\ env = [cancelled |-> FALSE, pktsSent |-> 0, ticks |-> 0, faults |-> 0]
    /\ InitTrk

\* the step of task c from pc to next with the runner becoming rn
LatStep(c, next, old, rn) ==
    /\ task' = [task EXCEPT ![c].pc = next, ![c].old = old]
    /\ runner' = rn
    /\ UNCHANGED <<config, client, ka, wire, agg, env, seqVars>>

\* r.connectLatency.Add(latencyMs)
LatSum(c) ==
    /\ task[c].pc = "sum"
    /\ LatStep(c, "count", 0,
               [runner EXCEPT !.connectLatency = @ + task[c].lat])

\* r.connectCount.Add(1)
LatCount(c) ==
    /\ task[c].pc = "count"
    /\ LatStep(c, "minload", 0, [runner EXCEPT !.connectCount = @ + 1])

\* oldMin := r.minLatency.Load(); the loop is left when latencyMs >= oldMin
LatMinLoad(c) ==
    /\ task[c].pc = "minload"
    /\ IF task[c].lat >= runner.minLatency
       THEN LatStep(c, "maxload", 0, runner)
       ELSE LatStep(c, "mincas", runner.minLatency, runner)

\* the minimum written with a plain store in place of the compare-and-swap
LatMinCAS_store(c) ==
    /\ task[c].pc = "mincas"
    /\ LatStep(c, "maxload", 0, [runner EXCEPT !.minLatency = task[c].lat])

\* r.minLatency.CompareAndSwap(oldMin, latencyMs): the loop is left when it
\* succeeds and loads again when another task has changed the minimum
LatMinCAS(c) ==
    /\ task[c].pc = "mincas"
    /\ IF runner.minLatency = task[c].old
       THEN LatStep(c, "maxload", 0,
                    [runner EXCEPT !.minLatency = task[c].lat])
       ELSE LatStep(c, "minload", 0, runner)

\* oldMax := r.maxLatency.Load(); the loop is left when latencyMs <= oldMax
LatMaxLoad(c) ==
    /\ task[c].pc = "maxload"
    /\ IF task[c].lat <= runner.maxLatency
       THEN LatStep(c, "append", 0, runner)
       ELSE LatStep(c, "maxcas", runner.maxLatency, runner)

\* r.maxLatency.CompareAndSwap(oldMax, latencyMs)
LatMaxCAS(c) ==
    /\ task[c].pc = "maxcas"
    /\ IF runner.maxLatency = task[c].old
       THEN LatStep(c, "append", 0,
                    [runner EXCEPT !.maxLatency = task[c].lat])
       ELSE LatStep(c, "maxload", 0, runner)

\* under latenciesMu: the sample is appended unless the buffer is full
LatAppend(c) ==
    /\ task[c].pc = "append"
    /\ LatStep(c, "total", 0,
               [runner EXCEPT !.samples =
                                 IF @ < MaxSamples THEN @ + 1 ELSE @])

\* r.totalConnects.Add(1), r.activeConnects.Add(1); client.Run follows
LatTotal(c) ==
    /\ task[c].pc = "total"
    /\ LatStep(c, "run", 0, [runner EXCEPT !.totalConnects = @ + 1,
                                           !.active = @ + 1])

NextLat ==
    \E c \in Sessions :
       \/ LatSum(c) \/ LatCount(c) \/ LatMinLoad(c) \/ LatMinCAS(c)
       \/ LatMaxLoad(c) \/ LatMaxCAS(c) \/ LatAppend(c) \/ LatTotal(c)

SpecLat == InitLat /\ [][NextLat]_vars

\* -------------------------------------------------- SpecBad -------------
\* the registration of runBadClient, one operation at a time, for bad
\* clients that were dispatched together: the counters, then the tally of
\* the client's type in the sync.Map badClientTypes (a missing key is a
\* tally of 0 here; old is the count a task has loaded).
BadTypes == {"SlowConnector", "SlowSender", "GarbageSender"}

InitBad ==
    /\ config = [Transport |-> "tcp", Readers |-> NumSessions,
                 RealWorld |-> FALSE]
    /\ client = [c \in Sessions |-> NewClient]
    /\ \E type \in [Sessions -> BadTypes] :
          task = [c \in Sessions |->
                     [NewTask EXCEPT !.pc = "badcount"] @@
                     [type |-> type[c], old |-> 0]]
    /\ ka = [c \in Sessions |-> NewKeepAlive]
    /\ wire = [c \in Sessions |-> NewWire]
    /\ agg = NewAggregator
    /\ runner = [NewRunner EXCEPT !.spawner = "done", !.wg = NumSessions,
                                  !.created = NumSessions,
                                  !.semaphore = NumSessions] @@
                [badClientTypes |-> [t \in BadTypes |-> 0]]
    /\ env = [cancelled |-> FALSE, pktsSent |-> 0, ticks |-> 0, faults |-> 0]
    /\ InitTrk

\* r.badClients.Add(1), r.activeConnects.Add(1)
BadCount(c) ==
    /\ task[c].pc = "badcount"
    /\ task' = [task EXCEPT ![c].pc = "badload"]
    /\ runner' = [runner EXCEPT !.badClients = @ + 1, !.active = @ + 1]
    /\ UNCHANGED <<config, client, ka, wire, agg, env, seqVars>>

\* r.badClientTypes.Load(typeName)
BadLoad(c) ==
    /\ task[c].pc = "badload"
    /\ task' = [task EXCEPT ![c].pc = "badstore",
                            ![c].old = runner.badClientTypes[task[c].type]]
    /\ UNCHANGED <<config, client, ka, wire, agg, runner, env, seqVars>>

\* r.badClientTypes.Store(typeName, count+1), or Store(typeName, 1) when the
\* key was missing; badClient.Run follows
BadStore(c) ==
    /\ task[c].pc = "badstore"
    /\ task' = [task EXCEPT ![c].pc = "badrun"]
    /\ runner' = [runner EXCEPT
                     !.badClientTypes[task[c].type] = task[c].old + 1]
    /\ UNCHANGED <<config, client, ka, wire, agg, env, seqVars>>

NextBad == \E c \in Sessions : BadCount(c) \/ BadLoad(c) \/ BadStore(c)

SpecBad == InitBad /\ [][NextBad]_vars

\* -------------------------------------------------- SpecRetry -----------
\* runConnection step by step for the tasks of a run whose spawner has
\* dispatched them all and returned. A task counts its calls of
\* client.Connect (attempts) and its own totalFailures.Add(1) (failures);
\* the runner's connectCount stands for the latency statistics, which are
\* all updated together (connectLatency, connectCount, min, max, latencies).
\* client.Run is taken as one step with its result: Spec follows it request
\* by request.
RunResults == {"handshake", "media", "ctx"}

InitRetry ==
    /\ config = [Transport |-> "tcp", Readers |-> NumSessions,
                 RealWorld |-> FALSE]
    /\ client = [c \in Sessions |-> NewClient]
    /\ task = [c \in Sessions |->
                  [NewTask EXCEPT !.pc = "connect"] @@
                  [attempts |-> 0, failures |-> 0]]
    /\ ka = [c \in Sessions |-> NewKeepAlive]
    /\ wire = [c \in Sessions |-> NewWire]
    /\ agg = NewAggregator
    /\ runner = [NewRunner EXCEPT !.spawner = "done", !.wg = NumSessions,
                                  !.created = NumSessions,
                                  !.semaphore = NumSessions] @@
                [connectCount |-> 0]
    /\ env = [cancelled |-> FALSE, pktsSent |-> 0, ticks |-> 0, faults |-> 0]
    /\ InitTrk

\* the head of the retry loop: return on a cancelled context, else go on to
\* NewClient and Connect
RetryCheck(c) ==
    /\ task[c].pc = "connect"
    /\ IF env.cancelled
       THEN /\ task' = [task EXCEPT ![c].pc = "exited"]
            /\ runner' = TaskReturns(runner)
       ELSE /\ task' = [task EXCEPT ![c].pc = "dial"]
            /\ UNCHANGED runner
    /\ UNCHANGED <<config, client, ka, wire, agg, env, seqVars>>

\* a retry loop that counts every failed attempt in totalFailures
RetryAttempt_countsEveryFailure(c) ==
    /\ task[c].pc = "dial"
    /\ \/ /\ task' = [task EXCEPT ![c].pc = "run", ![c].attempts = @ + 1]
          /\ runner' = [runner EXCEPT !.connectCount = @ + 1,
                                      !.totalConnects = @ + 1,
                                      !.active = @ + 1]
       \/ /\ task' = [task EXCEPT
                         ![c].pc = IF task[c].retry = maxRetries - 1
                                   THEN "exited" ELSE "connect",
                         ![c].retry = IF task[c].retry = maxRetries - 1
                                      THEN @ ELSE @ + 1,
                         ![c].attempts = @ + 1, ![c].failures = @ + 1]
          /\ runner' = IF task[c].retry = maxRetries - 1
                       THEN TaskReturns([runner EXCEPT !.totalFailures = @ + 1])
                       ELSE [runner EXCEPT !.totalFailures = @ + 1]
    /\ UNCHANGED <<config, client, ka, wire, agg, env, seqVars>>

\* NewClient and client.Connect of one pass: on success the loop is left,
\* the latency statistics and the counters are updated and client.Run is
\* entered; a failure of the last pass is counted and the task returns, a
\* failure of an earlier pass backs off and continues the loop
RetryAttempt(c) ==
    /\ task[c].pc = "dial"
    /\ \/ /\ task' = [task EXCEPT ![c].pc = "run", ![c].attempts = @ + 1]
          /\ runner' = [runner EXCEPT !.connectCount = @ + 1,
                                      !.totalConnects = @ + 1,
                                      !.active = @ + 1]
       \/ IF task[c].retry = maxRetries - 1
          THEN /\ task' = [task EXCEPT ![c].pc = "exited",
                                       ![c].attempts = @ + 1,
                                       ![c].failures = @ + 1]
               /\ runner' = TaskReturns([runner EXCEPT !.totalFailures = @ + 1])
          ELSE /\ task' = [task EXCEPT ![c].pc = "connect",
                                       ![c].retry = @ + 1,
                                       ![c].attempts = @ + 1]
               /\ UNCHANGED runner
    /\ UNCHANGED <<config, client, ka, wire, agg, env, seqVars>>

\* client.Run returns: with an error of the handshake or of the media loop,
\* which is counted, or with the context's error (DeadlineExceeded at any
\* time, Canceled after the cancel), which is not; the deferred calls
\* decrement activeConnects and release the slot
RetryRun(c) ==
    /\ task[c].pc = "run"
    /\ \E res \in RunResults :
          /\ task' = [task EXCEPT ![c].pc = "exited", ![c].runErr = res,
                                  ![c].failures =
                                      IF res = "ctx" THEN @ ELSE @ + 1]
          /\ runner' = TaskReturns(
                 [runner EXCEPT !.active = @ - 1,
                                !.totalFailures =
                                    IF res = "ctx" THEN @ ELSE @ + 1])
    /\ UNCHANGED <<config, client, ka, wire, agg, env, seqVars>>

NextRetry ==
    \/ \E c \in Sessions : RetryCheck(c) \/ RetryAttempt(c) \/ RetryRun(c)
    \/ Cancel
    \/ RunnerReturn

SpecRetry == InitRetry /\ [][NextRetry]_vars

\* -------------------------------------------------- SpecCtl -------------
\* manageConnections and the addConnection tasks, counted and not told
\* apart: connecting tasks are before their Connect returned, counted ones
\* have done activeConnects.Add(1) and are not in the connections map yet,
\* tracked ones are in the map, cancelling ones were cancelled by
\* removeConnections and have not returned yet. The
\* variance is 0, so the generator stores AvgConnections at every tick and
\* the target stays what it is; the server accepts every connection, no
\* lifetime expires and the run is not cancelled. The statistics counters
\* that no step of the controller reads (totalConnects) are left out.
CtlTargets == {1, 25, 51}

InitCtl ==
    /\ config \in [Transport : {"tcp"}, Readers : {1}, RealWorld : {TRUE},
                   AvgConnections : CtlTargets, Variance : {0}]
    /\ client = [c \in Sessions |-> NewClient]
    /\ task = [c \in Sessions |-> NewTask]
    /\ ka = [c \in Sessions |-> NewKeepAlive]
    /\ wire = [c \in Sessions |-> NewWire]
    /\ agg = NewAggregator
    /\ runner = NewRealWorldSimulator @@
                [target |-> config.AvgConnections, tick |-> 0,
                 connecting |-> 0, counted |-> 0, tracked |-> 0,
                 cancelling |-> 0]
    /\ env = [cancelled |-> FALSE, pktsSent |-> 0, ticks |-> 0, faults |-> 0]
    /\ InitTrk

\* removeConnections that cancels count connections whatever the map holds
removeConnections_ignoresMap(count, tracked) == count

\* removeConnections(count) on a map of the given size: the number of
\* connections it cancels and deletes (the loop ends with the map)
removeConnections(count, tracked) == IF tracked < count THEN tracked ELSE count

\* manageConnections receives a tick of its 1 s ticker and runs
\* adjustConnections: diff = target - active; up to 50 addConnection tasks
\* are started (wg.Add(1) each) or up to 20 connections are removed
CtlAdjust ==
    /\ runner.spawner = "run"
    /\ LET current == runner.active
           diff == runner.target - current
           toAdd == IF diff > 50 THEN 50 ELSE diff
           toRemove == IF -diff > 20 THEN 20 ELSE -diff
           removed == removeConnections(toRemove, runner.tracked)
       IN  IF diff > 0
           THEN /\ runner.connecting + runner.active + toAdd <= MaxCtlTasks
                /\ runner' = [runner EXCEPT !.tick = 1 - @,
                                            !.connecting = @ + toAdd,
                                            !.wg = @ + toAdd]
           ELSE IF diff < 0
           THEN runner' = [runner EXCEPT !.tick = 1 - @,
                                         !.tracked = @ - removed,
                                         !.cancelling = @ + removed]
           ELSE runner' = [runner EXCEPT !.tick = 1 - @]
    /\ UNCHANGED <<config, client, task, ka, wire, agg, env, seqVars>>

\* addConnection of one connecting task: Connect succeeds,
\* activeConnects.Add(1)
CtlConnect ==
    /\ runner.connecting > 0
    /\ runner.counted < MaxCtlCounted
    /\ runner' = [runner EXCEPT !.connecting = @ - 1, !.active = @ + 1,
                                !.counted = @ + 1]
    /\ UNCHANGED <<config, client, task, ka, wire, agg, env, seqVars>>

\* addConnection of one counted task: the connection is stored in the map
\* under connMu, client.Run starts
CtlStore ==
    /\ runner.counted > 0
    /\ runner' = [runner EXCEPT !.counted = @ - 1, !.tracked = @ + 1]
    /\ UNCHANGED <<config, client, task, ka, wire, agg, env, seqVars>>

\* addConnection of one cancelled task: client.Run returns, the (already
\* deleted) map entry is deleted, activeConnects.Add(-1), wg.Done
CtlExit ==
    /\ runner.cancelling > 0
    /\ runner' = [runner EXCEPT !.cancelling = @ - 1, !.active = @ - 1,
                                !.wg = @ - 1]
    /\ UNCHANGED <<config, client, task, ka, wire, agg, env, seqVars>>

NextCtl == CtlAdjust \/ CtlConnect \/ CtlStore \/ CtlExit

\* the ticker keeps ticking and every task is scheduled as long as it can
\* run
SpecCtl ==
    /\ InitCtl
    /\ [][NextCtl]_vars
    /\ WF_vars(CtlAdjust) /\ WF_vars(CtlConnect)
    /\ WF_vars(CtlStore) /\ WF_vars(CtlExit)

\* ------------------------------------------- bad clients ----------------
\* runBadClient up to badClient.Run: the bad client is counted and active
BadStart(c) ==
    /\ task[c].pc = "bad"
    /\ task' = [task EXCEPT ![c].pc = "badrun"]
    /\ runner' = [runner EXCEPT !.badClients = @ + 1, !.active = @ + 1]
    /\ UNCHANGED <<config, client, ka, wire, agg, env, seqVars>>

\* badClient.Run returns (its result is ignored) and runBadClient with it:
\* the deferred activeConnects.Add(-1), semaphore release and wg.Done
BadReturn(c) ==
    /\ task[c].pc = "badrun"
    /\ task' = [task EXCEPT ![c].pc = "exited"]
    /\ runner' = TaskReturns([runner EXCEPT !.active = @ - 1])
    /\ UNCHANGED <<config, client, ka, wire, agg, env, seqVars>>

\* -------------------------------------------------- Client.Run ----------
\* the session goroutine's step: the new Client, task, keep-alive and Runner
Becomes(c, r) ==
    /\ client' = [client EXCEPT ![c] = r.cl]
    /\ task' = [task EXCEPT ![c] = r.tk]
    /\ ka' = [ka EXCEPT ![c] = r.kav]
    /\ runner' = r.rn

\* the caller builds its next request: buildRequest and c.cseq++
NextRequest(cl, tk, kav, rn, m) ==
    [cl |-> [cl EXCEPT !.cseq = @ + 1],
     tk |-> [tk EXCEPT !.pc = "send", !.req = buildRequest(cl, m)],
     kav |-> kav, rn |-> rn]

\* Run, runTCP or runUDP returns err: the deferred ticker stop or
\* cancelKeepAlive runs and the deferred Close is entered (ctxAtExit
\* records whether the session's context was done at that moment)
LeaveRun(cl, tk, kav, rn, err) ==
    [cl |-> cl,
     tk |-> [tk EXCEPT !.pc = "close", !.runErr = err, !.ctxAtExit = tk.ctxDone],
     kav |-> [kav EXCEPT !.stop = TRUE], rn |-> rn]

\* the end of a session that leaves its entry in the connections map
CloseSockets_keepsEntry(cl, tk, kav, rn) ==
    [cl |-> [cl EXCEPT !.conn = "closed",
                       !.rtpConn = IF @ = "open" THEN "closed" ELSE @,
                       !.mu = "free"],
     tk |-> [tk EXCEPT !.pc = "exited"],
     kav |-> kav,
     rn |-> IF config.RealWorld THEN AfterConnection(rn, tk.runErr)
                                ELSE AfterRun(rn, tk.runErr)]

\* Close after its TEARDOWN: the sockets are closed, Run returns and
\* runConnection's epilogue runs
CloseSockets(cl, tk, kav, rn) ==
    [cl |-> [cl EXCEPT !.conn = "closed",
                       !.rtpConn = IF @ = "open" THEN "closed" ELSE @,
                       !.mu = "free"],
     tk |-> [tk EXCEPT !.pc = "exited", !.inMap = FALSE],
     kav |-> kav,
     rn |-> IF config.RealWorld THEN AfterConnection(rn, tk.runErr)
                                ELSE AfterRun(rn, tk.runErr)]

\* Run's handshake with DESCRIBE followed by PLAY at once: the two SETUP
\* requests are left out
RequestResult_playAfterDescribe(cl, tk, kav, rn, ok, sid) ==
    LET m == tk.req.m
        fail == LeaveRun(cl, tk, kav, rn, "error")
    IN  CASE m = "OPTIONS" ->
               IF ok THEN NextRequest(cl, tk, kav, rn, "DESCRIBE") ELSE fail
          [] m = "DESCRIBE" ->
               IF ok THEN NextRequest(cl, tk, kav, rn, "PLAY") ELSE fail
          [] m \in {"SETUP0", "SETUP1"} -> NextRequest(cl, tk, kav, rn, "PLAY")
          [] m = "PLAY" ->
               IF ~ok THEN fail
               ELSE IF config.Transport = "udp"
                    THEN [cl |-> cl, tk |-> [tk EXCEPT !.pc = "uloop"],
                          kav |-> [kav EXCEPT !.g[1] = "wait"], rn |-> rn]
                    ELSE [cl |-> cl, tk |-> [tk EXCEPT !.pc = "loop"],
                          kav |-> kav, rn |-> rn]
          [] OTHER -> CloseSockets(cl, tk, kav, rn)

\* what the session goroutine does with the result of the request it sent:
\* Run's handshake (OPTIONS, DESCRIBE, sendSetup, PLAY, then the media
\* loop of the transport) and Close's TEARDOWN
RequestResult(cl, tk, kav, rn, ok, sid) ==
    LET m == tk.req.m
        fail == LeaveRun(cl, tk, kav, rn, "error")
        withSid == IF sid # "" THEN [cl EXCEPT !.session = sid] ELSE cl
        withUDP == IF config.Transport = "udp" /\ cl.rtpConn = "nil"
                   THEN [cl EXCEPT !.rtpConn = "open"] ELSE cl
    IN  CASE m = "OPTIONS" ->
               IF ok THEN NextRequest(cl, tk, kav, rn, "DESCRIBE") ELSE fail
          [] m = "DESCRIBE" ->
               IF ok THEN NextRequest(withUDP, tk, kav, rn, "SETUP0") ELSE fail
          [] m = "SETUP0" ->
               IF ~ok THEN fail
               ELSE IF withSid.session # ""
                    THEN NextRequest(withSid, tk, kav, rn, "SETUP1")
                    ELSE NextRequest(withSid, tk, kav, rn, "PLAY")
          [] m = "SETUP1" -> NextRequest(cl, tk, kav, rn, "PLAY")
          [] m = "PLAY" ->
               IF ~ok THEN fail
               ELSE IF config.Transport = "udp"
                    THEN [cl |-> cl, tk |-> [tk EXCEPT !.pc = "uloop"],
                          kav |-> [kav EXCEPT !.g[1] = "wait"], rn |-> rn]
                    ELSE [cl |-> cl, tk |-> [tk EXCEPT !.pc = "loop"],
                          kav |-> kav, rn |-> rn]
          [] OTHER -> CloseSockets(cl, tk, kav, rn)

\* sendRequestWithResponse of the session goroutine up to its Write:
\* c.mu.Lock(), the closed check, conn.Write
ReqSend(c) ==
    /\ task[c].pc = "send"
    /\ client[c].mu = "free"
    /\ \/ /\ ~client[c].closed
          /\ client' = [client EXCEPT ![c].mu = "main"]
          /\ task' = [task EXCEPT ![c].pc = "read"]
          /\ wire' = [wire EXCEPT ![c].tx = Append(@, task[c].req)]
          /\ UNCHANGED <<ka, runner>>
       \/ /\ client[c].closed \/ wire[c].srvClosed
          /\ Becomes(c, RequestResult(client[c], task[c], ka[c], runner, FALSE, ""))
          /\ UNCHANGED wire
    /\ UNCHANGED <<config, agg, env, seqVars>>

\* readResponse of the session goroutine, then the deferred Unlock
ReqRead(c) ==
    /\ task[c].pc = "read"
    /\ LET cl == [client[c] EXCEPT !.mu = "free"] IN
       \/ /\ wire[c].rx # <<>>
          /\ LET tok == Head(wire[c].rx) IN
             Becomes(c, RequestResult(cl, task[c], ka[c], runner,
                                      ResponseOK(tok), tok.sid))
          /\ wire' = [wire EXCEPT ![c].rx = Tail(@)]
       \/ /\ wire[c].rx = <<>>
          /\ wire[c].srvClosed
          /\ Becomes(c, RequestResult(cl, task[c], ka[c], runner, FALSE, ""))
          /\ UNCHANGED wire
    /\ UNCHANGED <<config, agg, env, seqVars>>

\* processRTPPacket up to tracker.Push: the sequence number is pushed, the
\* loss it returned is still to be added to the aggregator
processRTPPacket(cl, tk, seq, len) ==
    LET r == Push(cl.tracker, seq) IN
    [cl |-> [cl EXCEPT !.tracker = r.t],
     tk |-> [tk EXCEPT !.pc = "agg", !.pend = r.lost, !.handed = @ + len]]

\* processRTPPacket after Push: AddLoss(lost) if lost > 0, AddPackets(1)
AggAdd(c) ==
    /\ task[c].pc = "agg"
    /\ agg' = AddPackets(AddLoss(agg, task[c].pend), 1)
    /\ task' = [task EXCEPT ![c].pc = IF config.Transport = "udp" THEN "uloop" ELSE "loop",
                            ![c].pend = 0]
    /\ UNCHANGED <<config, client, ka, wire, runner, env, seqVars>>

\* a read error in the media loop: with the context done reportStats and
\* return nil, else return the error
ReadError(c) ==
    /\ Becomes(c, LeaveRun(client[c], task[c], ka[c], runner,
                           IF task[c].ctxDone THEN "nil" ELSE "error"))
    /\ agg' = IF task[c].ctxDone THEN reportStats(agg, client[c]) ELSE agg

\* runTCP, the select of one loop iteration: a ready case is taken (any of
\* them when several are ready), the default only when none is ready
LoopSelect(c) ==
    /\ task[c].pc = "loop"
    /\ \/ /\ task[c].ctxDone
          /\ agg' = reportStats(agg, client[c])
          /\ Becomes(c, LeaveRun(client[c], task[c], ka[c], runner, "canceled"))
       \/ /\ ka[c].tickC
          /\ LET k == ka[c].nticks IN
             ka' = [ka EXCEPT ![c].tickC = FALSE, ![c].g[k] = "build"]
          /\ UNCHANGED <<client, task, runner, agg>>
       \/ /\ ka[c].errCh
          /\ Becomes(c, LeaveRun(client[c], task[c],
                                 [ka[c] EXCEPT !.errCh = FALSE], runner, "error"))
          /\ UNCHANGED agg
       \/ /\ ~task[c].ctxDone /\ ~ka[c].tickC /\ ~ka[c].errCh
          /\ task' = [task EXCEPT ![c].pc = "frame"]
          /\ UNCHANGED <<client, ka, runner, agg>>
    /\ UNCHANGED <<config, wire, env, seqVars>>

\* readInterleavedFrame: bytes that do not start with '$' are consumed as an
\* unsolicited RTSP message; a frame on channel 0 with at least 12 bytes of
\* payload goes to processRTPPacket; the connection's end is a read error
FrameRead(c) ==
    /\ task[c].pc = "frame"
    /\ \/ /\ wire[c].rx # <<>>
          /\ LET tok == Head(wire[c].rx)
                 p == processRTPPacket(client[c], task[c], tok.seq, tok.len)
             IN  IF tok.k = "frame" /\ tok.ch = 0 /\ tok.len >= MinRTPLen
                 THEN /\ client' = [client EXCEPT ![c] = p.cl]
                      /\ task' = [task EXCEPT ![c] = p.tk]
                 ELSE /\ task' = [task EXCEPT ![c].pc = "loop"]
                      /\ UNCHANGED client
          /\ wire' = [wire EXCEPT ![c].rx = Tail(@)]
          /\ UNCHANGED <<ka, runner, agg>>
       \/ /\ wire[c].rx = <<>>
          /\ wire[c].srvClosed
          /\ ReadError(c)
          /\ UNCHANGED wire
    /\ UNCHANGED <<config, env, seqVars>>

\* runUDP, the select of one loop iteration (the deadline refresh of the
\* deadlineTimer case changes nothing that is modelled)
ULoopSelect(c) ==
    /\ task[c].pc = "uloop"
    /\ \/ /\ task[c].ctxDone
          /\ agg' = reportStats(agg, client[c])
          /\ Becomes(c, LeaveRun(client[c], task[c], ka[c], runner, "canceled"))
       \/ /\ ka[c].errCh
          /\ Becomes(c, LeaveRun(client[c], task[c],
                                 [ka[c] EXCEPT !.errCh = FALSE], runner, "error"))
          /\ UNCHANGED agg
       \/ /\ ~task[c].ctxDone /\ ~ka[c].errCh
          /\ task' = [task EXCEPT ![c].pc = "uread"]
          /\ UNCHANGED <<client, ka, runner, agg>>
    /\ UNCHANGED <<config, wire, env, seqVars>>

\* rtpConn.ReadFrom returns: a datagram the server sent (handed to
\* processRTPPacket when it has at least 12 bytes), the 30 s read deadline
\* (refresh and continue), or another error
UdpRead(c) ==
    /\ task[c].pc = "uread"
    /\ \/ /\ wire[c].playing
          /\ \E d \in Datagrams :
                LET p == processRTPPacket(client[c], task[c], d.seq, d.len) IN
                IF d.len >= MinRTPLen
                THEN /\ env.pktsSent < MaxPackets
                     /\ client' = [client EXCEPT ![c] = p.cl]
                     /\ task' = [task EXCEPT ![c] = p.tk]
                     /\ env' = [env EXCEPT !.pktsSent = @ + 1]
                ELSE /\ task' = [task EXCEPT ![c].pc = "uloop"]
                     /\ UNCHANGED <<client, env>>
          /\ UNCHANGED <<ka, runner, agg>>
       \/ /\ task' = [task EXCEPT ![c].pc = "uloop"]
          /\ UNCHANGED <<client, ka, runner, agg, env>>
       \/ /\ env.faults < MaxFaults
          /\ ReadError(c)
          /\ env' = [env EXCEPT !.faults = @ + 1]
    /\ UNCHANGED <<config, wire, seqVars>>

\* Close: c.mu.Lock(), the closed check and closed = true; with a session-id
\* sendTeardown builds TEARDOWN and calls sendRequestWithResponse, otherwise
\* the sockets are closed and Run returns
Close(c) ==
    /\ task[c].pc = "close"
    /\ client[c].mu = "free"
    /\ LET cl == [client[c] EXCEPT !.mu = "main", !.closed = TRUE] IN
       IF cl.session # "" /\ cl.conn # "nil"
       THEN Becomes(c, NextRequest(cl, task[c], ka[c], runner, "TEARDOWN"))
       ELSE Becomes(c, CloseSockets(cl, task[c], ka[c], runner))
    /\ UNCHANGED <<config, wire, agg, env, seqVars>>

\* -------------------------------------------------- keep-alive ----------
\* the keep-alive ticker fires (KeepAliveInterval); its channel holds the
\* tick until the select that receives it is reached, so the tick is taken
\* when the receiving goroutine is at that select
Tick(c) ==
    /\ IF config.Transport = "udp"
       THEN task[c].pc \in {"uloop", "uread", "agg"} /\ ka[c].g[1] = "wait"
       ELSE task[c].pc = "loop"
    /\ ~ka[c].stop
    /\ ~ka[c].tickC
    /\ env.ticks < MaxTicks(config.Readers)
    /\ ka' = [ka EXCEPT ![c].tickC = TRUE, ![c].nticks = @ + 1]
    /\ env' = [env EXCEPT !.ticks = @ + 1]
    /\ UNCHANGED <<config, client, task, wire, agg, runner, seqVars>>

\* runUDP's keep-alive goroutine at its select: return when keepAliveCtx is
\* done, build a GET_PARAMETER on a tick. It is the only keep-alive
\* goroutine of the session and the one other builder, Close's
\* sendTeardown, runs with closed set, when this goroutine writes no more:
\* its c.cseq++ is taken in one step.
KaSelect(c) ==
    /\ config.Transport = "udp"
    /\ ka[c].g[1] = "wait"
    /\ \/ /\ ka[c].stop \/ task[c].ctxDone
          /\ ka' = [ka EXCEPT ![c].g[1] = "done"]
          /\ UNCHANGED client
       \/ /\ ka[c].tickC
          /\ ka' = [ka EXCEPT ![c].tickC = FALSE,
                              ![c].g[1] = "send",
                              ![c].req[1] = buildRequest(client[c], "GET_PARAMETER")]
          /\ client' = [client EXCEPT ![c].cseq = @ + 1]
    /\ UNCHANGED <<config, task, wire, agg, runner, env, seqVars>>

\* sendKeepAlive of one of runTCP's goroutines, buildRequest up to its CSeq
\* line: the request is formatted with the value of c.cseq it reads (c.mu
\* is not held)
KaBuild(c, k) ==
    /\ ka[c].g[k] = "build"
    /\ ka' = [ka EXCEPT ![c].g[k] = "inc",
                        ![c].req[k] = buildRequest(client[c], "GET_PARAMETER")]
    /\ UNCHANGED <<config, client, task, wire, agg, runner, env, seqVars>>

\* the values c.cseq++ of a goroutine can store when it formatted its CSeq
\* line with the value seen: the increment is an unsynchronized load and
\* store, its load sees the value of the formatting or any later one
RacyIncrements(seen, now) ==
    {v + 1 : v \in (IF seen < now THEN seen ELSE now)..now}

\* buildRequest of a keep-alive goroutine, c.cseq++: increments made by
\* other goroutines since the load are overwritten
KaInc(c, k) ==
    /\ ka[c].g[k] = "inc"
    /\ \E v \in RacyIncrements(ka[c].req[k].cseq, client[c].cseq) :
          client' = [client EXCEPT ![c].cseq = v]
    /\ ka' = [ka EXCEPT ![c].g[k] = "send"]
    /\ UNCHANGED <<config, task, wire, agg, runner, env, seqVars>>

\* a keep-alive goroutine after sendKeepAlive returned: an error goes to
\* the error channel unless it is full; runTCP's goroutine ends, runUDP's
\* goes back to its select after a success
KaResult(kav, k, ok) ==
    [kav EXCEPT !.g[k] = IF ok /\ config.Transport = "udp" THEN "wait" ELSE "done",
                !.errCh = IF ok THEN @ ELSE TRUE]

\* sendRequestWithResponse of a keep-alive goroutine without c.mu.Lock()
KaSend_withoutLock(c, k) ==
    /\ ka[c].g[k] = "send"
    /\ \/ /\ ~client[c].closed
          /\ client' = [client EXCEPT ![c].mu = "ka"]
          /\ ka' = [ka EXCEPT ![c].g[k] = "read"]
          /\ wire' = [wire EXCEPT ![c].tx = Append(@, ka[c].req[k])]
       \/ /\ client[c].closed \/ wire[c].srvClosed
          /\ ka' = [ka EXCEPT ![c] = KaResult(@, k, FALSE)]
          /\ UNCHANGED <<client, wire>>
    /\ UNCHANGED <<config, task, agg, runner, env, seqVars>>

\* sendRequestWithResponse of a keep-alive goroutine without the closed
\* check
KaSend_ignoresClosed(c, k) ==
    /\ ka[c].g[k] = "send"
    /\ client[c].mu = "free"
    /\ \/ /\ client' = [client EXCEPT ![c].mu = "ka"]
          /\ ka' = [ka EXCEPT ![c].g[k] = "read"]
          /\ wire' = [wire EXCEPT ![c].tx = Append(@, ka[c].req[k])]
       \/ /\ wire[c].srvClosed
          /\ ka' = [ka EXCEPT ![c] = KaResult(@, k, FALSE)]
          /\ UNCHANGED <<client, wire>>
    /\ UNCHANGED <<config, task, agg, runner, env, seqVars>>

\* sendRequestWithResponse of a keep-alive goroutine up to its Write
KaSend(c, k) ==
    /\ ka[c].g[k] = "send"
    /\ client[c].mu = "free"
    /\ \/ /\ ~client[c].closed
          /\ client' = [client EXCEPT ![c].mu = "ka"]
          /\ ka' = [ka EXCEPT ![c].g[k] = "read"]
          /\ wire' = [wire EXCEPT ![c].tx = Append(@, ka[c].req[k])]
       \/ /\ client[c].closed \/ wire[c].srvClosed
          /\ ka' = [ka EXCEPT ![c] = KaResult(@, k, FALSE)]
          /\ UNCHANGED <<client, wire>>
    /\ UNCHANGED <<config, task, agg, runner, env, seqVars>>

\* readResponse of a keep-alive goroutine, then the deferred Unlock
KaRead(c, k) ==
    /\ ka[c].g[k] = "read"
    /\ \/ /\ wire[c].rx # <<>>
          /\ ka' = [ka EXCEPT ![c] = KaResult(@, k, ResponseOK(Head(wire[c].rx)))]
          /\ wire' = [wire EXCEPT ![c].rx = Tail(@)]
       \/ /\ wire[c].rx = <<>>
          /\ wire[c].srvClosed
          /\ ka' = [ka EXCEPT ![c] = KaResult(@, k, FALSE)]
          /\ UNCHANGED wire
    /\ client' = [client EXCEPT ![c].mu = "free"]
    /\ UNCHANGED <<config, task, agg, runner, env, seqVars>>

\* -------------------------------------------------- the server ----------
\* the goroutines of session c that are inside a read of the control stream
\* (0: the session goroutine, k: keep-alive goroutine k)
ControlReaders(c) ==
    (IF task[c].pc \in {"read", "frame"} THEN {0} ELSE {})
    \cup {k \in KAs : ka[c].g[k] = "read"}

\* the goroutines of session c that are about to write a request
ControlWriters(c) ==
    (IF task[c].pc = "send" THEN {0} ELSE {})
    \cup {k \in KAs : ka[c].g[k] = "send"}

\* Bytes the server sends are buffered by the connection until a goroutine
\* reads them, and nothing in the client polls for them: what the client
\* does depends on the order of the bytes in the stream only, not on when
\* they arrive. The server's steps are therefore taken when a goroutine is
\* waiting in a read (or, for the close, about to write).
Token(k, ok, sid, ch, seq, len) ==
    [k |-> k, ok |-> ok, sid |-> sid, ch |-> ch, seq |-> seq, len |-> len]

\* the server answers the oldest unanswered request, with a status below
\* or above 400; a SETUP answer may carry a Session header,
\* an accepted PLAY starts the stream
SrvRespond(c) ==
    /\ client[c].conn = "open"
    /\ ~wire[c].srvClosed
    /\ wire[c].answered < Len(wire[c].tx)
    /\ ControlReaders(c) # {}
    /\ Len(wire[c].rx) < MaxRx
    /\ LET q == wire[c].tx[wire[c].answered + 1] IN
       \E ok \in BOOLEAN :
       \E sid \in IF q.m = "SETUP0" /\ ok THEN {"", "sid"} ELSE {""} :
          LET fault == ~ok \/ (q.m = "SETUP0" /\ sid = "") IN
          /\ fault => env.faults < MaxFaults
          /\ wire' = [wire EXCEPT ![c].rx = Append(@, Token("resp", ok, sid, 0, 0, 0)),
                                  ![c].answered = @ + 1,
                                  ![c].playing = @ \/ (q.m = "PLAY" /\ ok)]
          /\ env' = [env EXCEPT !.faults = IF fault THEN @ + 1 ELSE @]
    /\ UNCHANGED <<config, client, task, ka, agg, runner, seqVars>>

\* the server sends an interleaved frame on the control connection
SrvFrame(c) ==
    /\ config.Transport = "tcp"
    /\ client[c].conn = "open"
    /\ ~wire[c].srvClosed
    /\ wire[c].playing
    /\ ControlReaders(c) # {}
    /\ Len(wire[c].rx) < MaxRx
    /\ \E f \in Frames :
          /\ IsRTP(f) => env.pktsSent < MaxPackets
          /\ wire' = [wire EXCEPT ![c].rx = Append(@, Token("frame", FALSE, "", f.ch, f.seq, f.len))]
          /\ env' = [env EXCEPT !.pktsSent = IF IsRTP(f) THEN @ + 1 ELSE @]
    /\ UNCHANGED <<config, client, task, ka, agg, runner, seqVars>>

\* the server closes the control connection (after what it sent was read)
SrvClose(c) ==
    /\ client[c].conn = "open"
    /\ ~wire[c].srvClosed
    /\ wire[c].rx = <<>>
    /\ ControlReaders(c) \cup ControlWriters(c) # {}
    /\ env.faults < MaxFaults
    /\ wire' = [wire EXCEPT ![c].srvClosed = TRUE]
    /\ env' = [env EXCEPT !.faults = @ + 1]
    /\ UNCHANGED <<config, client, task, ka, agg, runner, seqVars>>

\* -------------------------------------------------- SpecFrames ----------
\* runTCP's media loop of one session whose handshake was accepted, with a
\* server that sends interleaved frames on the channels 0 to 3 (RTP and RTCP
\* of a video and of an audio track), long enough for an RTP header or not.
\* No keep-alive tick falls into the frames that are followed.
InterleavedFrames ==
    [ch : 0..3, seq : FrameSeqs, len : {MinRTPLen - 4, MinRTPLen}]

InitFrames ==
    /\ config = [Transport |-> "tcp", Readers |-> 1, RealWorld |-> FALSE]
    /\ client = [c \in Sessions |->
                    IF c = 1 THEN [NewClient EXCEPT !.conn = "open", !.cseq = 5]
                    ELSE NewClient]
    /\ task = [c \in Sessions |->
                  IF c = 1
                  THEN [NewTask EXCEPT
                           !.pc = "loop",
                           !.req = [m |-> "PLAY", cseq |-> 4, sess |-> ""]]
                  ELSE NewTask]
    /\ ka = [c \in Sessions |-> NewKeepAlive]
    /\ wire = [c \in Sessions |->
                  IF c = 1
                  THEN [NewWire EXCEPT
                           !.tx = <<[m |-> "OPTIONS", cseq |-> 1, sess |-> ""],
                                    [m |-> "DESCRIBE", cseq |-> 2, sess |-> ""],
                                    [m |-> "SETUP0", cseq |-> 3, sess |-> ""],
                                    [m |-> "PLAY", cseq |-> 4, sess |-> ""]>>,
                           !.answered = 4, !.playing = TRUE]
                  ELSE NewWire]
    /\ agg = NewAggregator
    /\ runner = [NewRunner EXCEPT !.spawner = "done", !.created = 1,
                                  !.semaphore = 1, !.active = 1,
                                  !.totalConnects = 1]
    /\ env = [cancelled |-> FALSE, pktsSent |-> 0, ticks |-> 0, faults |-> 0]
    /\ InitTrk

\* the server sends an interleaved frame on one of its channels
SrvAnyFrame(c) ==
    /\ client[c].conn = "open"
    /\ wire[c].playing
    /\ task[c].pc = "frame"
    /\ Len(wire[c].rx) < MaxRx
    /\ env.pktsSent < MaxFrames
    /\ \E f \in InterleavedFrames :
          wire' = [wire EXCEPT
                      ![c].rx = Append(@, Token("frame", FALSE, "", f.ch, f.seq, f.len))]
    /\ env' = [env EXCEPT !.pktsSent = @ + 1]
    /\ UNCHANGED <<config, client, task, ka, agg, runner, seqVars>>

NextFrames ==
    \E c \in Sessions :
       SrvAnyFrame(c) \/ LoopSelect(c) \/ FrameRead(c) \/ AggAdd(c)

SpecFrames == InitFrames /\ [][NextFrames]_vars

\* -------------------------------------------------- Spec ----------------
\* the steps of session c's own goroutines: they need no new byte from the
\* server, no timer tick and no cancellation to be taken
SessionNext(c) ==
    \/ Connect(c) \/ BadStart(c) \/ BadReturn(c) \/ RWConnect(c)
    \/ ReqSend(c) \/ ReqRead(c)
    \/ LoopSelect(c) \/ FrameRead(c) \/ ULoopSelect(c) \/ UdpRead(c)
    \/ AggAdd(c) \/ Close(c) \/ KaSelect(c)
    \/ \E k \in KAs : KaBuild(c, k) \/ KaInc(c, k) \/ KaSend(c, k) \/ KaRead(c, k)

\* the steps of the program's own goroutines
ProgramNext ==
    \/ Spawn \/ SpawnerCancelled \/ RunnerReturn
    \/ RWManagerStop \/ RWGenStop
    \/ \E c \in Sessions : SessionNext(c)

\* the steps of the environment: cancellation, timers, the server
EnvNext ==
    \/ Cancel \/ RWAdjust
    \/ \E c \in Sessions :
          Deadline(c) \/ Tick(c) \/ SrvRespond(c) \/ SrvFrame(c) \/ SrvClose(c)

Next == ProgramNext \/ EnvNext

Spec == Init /\ [][Next]_vars

\* ------------------------------------------- session properties ---------
\* the session goroutine is in sendRequestWithResponse's c.mu.Lock() while
\* it holds c.mu itself: nobody will ever unlock it
WaitsForOwnMutex(c) == task[c].pc = "send" /\ client[c].mu = "main"

\* the session goroutine has returned, or never will
Quiesced(c) == task[c].pc \in {"idle", "exited"} \/ WaitsForOwnMutex(c)
AllQuiesced == \A c \in Sessions : Quiesced(c)

\* Run of session c ended without an error (deadline or cancellation)
EndedNormally(c) == task[c].runErr \in {"nil", "canceled"}

\* the TEARDOWN requests with the session-id written on c's connection
TeardownWrites(c) ==
    {i \in 1..Len(wire[c].tx) :
        wire[c].tx[i].m = "TEARDOWN" /\ wire[c].tx[i].sess = client[c].session}

RECURSIVE SumUpTo(_, _)
SumUpTo(f, n) == IF n = 0 THEN 0 ELSE f[n] + SumUpTo(f, n - 1)
\* the sum of f[c] over all sessions
SumOverSessions(f) == SumUpTo(f, NumSessions)

\* C1: once the run-level cancel has fired or a session's deadline has
\* expired, every session task returns, active reaches 0 and Run returns
\* without further bytes from the server: a state in which the context is
\* done and the program can take no step on its own is a state in which the
\* session has returned (and, after the run-level cancel, Run has returned).
C1_CancelTerminates ==
    /\ \A c \in Sessions :
          (task[c].ctxDone /\ ~ENABLED SessionNext(c)) =>
              task[c].pc \in {"idle", "exited"}
    /\ (env.cancelled /\ ~ENABLED ProgramNext) =>
          (runner.active = 0 /\ runner.pc = "returned")

\* C2: on every exit path of Run after a successful Connect, Close runs to
\* completion with the control connection and the UDP sockets closed; the
\* session task is never blocked inside Close on the mutex it holds.
C2_CloseReleases ==
    \A c \in Sessions :
       /\ (task[c].pc = "exited" /\ client[c].conn # "nil") =>
             (client[c].conn = "closed" /\ client[c].rtpConn # "open")
       /\ ~(client[c].closed /\ WaitsForOwnMutex(c))

\* C3: a session whose Run ended normally has written TEARDOWN with its
\* session-id exactly once if the session-id is non-empty and never if it
\* is empty, by the time it can go no further.
C3_TeardownIffSession ==
    \A c \in Sessions :
       (EndedNormally(c) /\ (task[c].pc = "exited" \/ WaitsForOwnMutex(c))) =>
           Cardinality(TeardownWrites(c)) =
               (IF client[c].session # "" THEN 1 ELSE 0)

\* C4: in TCP-interleaved mode at most one goroutine of a session is inside
\* a read of the control stream at any time.
C4_SingleControlReader ==
    config.Transport = "tcp" =>
        \A c \in Sessions : Cardinality(ControlReaders(c)) <= 1

\* C7: after all sessions have quiesced the aggregator's lost counter is
\* the sum of the trackers' total_lost.
C7_LostCountedOnce ==
    AllQuiesced =>
        agg.lost = SumOverSessions([c \in Sessions |-> client[c].tracker.totalLost])

\* C8: whenever no session is between tracker.Push and AddPackets, the
\* aggregator's packets counter is the sum of the trackers' total_packets.
C8_PacketsSum ==
    (\A c \in Sessions : task[c].pc # "agg") =>
        agg.packets = SumOverSessions([c \in Sessions |-> client[c].tracker.totalPkts])

\* C8 witness: the run has quiesced after every session processed packets,
\* one of them a reordered packet (its tracker's last sequence number is
\* below the highest one it has seen), and the counter is the sum
C8_Witness ==
    /\ AllQuiesced
    /\ \A c \in Sessions : client[c].tracker.initialized
    /\ \E c \in Sessions :
          /\ client[c].tracker.totalPkts >= 2
          /\ client[c].tracker.lastSeq < client[c].tracker.maxSeq
    /\ agg.packets = SumOverSessions([c \in Sessions |-> client[c].tracker.totalPkts])
    /\ agg.packets > NumSessions

\* C9: after all sessions have quiesced the aggregator's bytes counter is
\* the sum of the lengths of the packets handed to RTP processing, and it
\* is non-zero when packets is.
C9_BytesSum ==
    AllQuiesced =>
        /\ agg.bytes = SumOverSessions([c \in Sessions |-> task[c].handed])
        /\ agg.packets > 0 => agg.bytes > 0

\* ------------------------------------------- tracker properties ---------
\* the last Push was made on an initialized tracker
PushedOnInitialized == npush > 0 /\ prevTrk.initialized

\* delta = (seq - last_seq) mod 2^16 of the last Push
PushDelta == Sub16(pushSeq, prevTrk.lastSeq)

\* C5: on an initialized tracker a Push in the backward region
\* (delta >= 0x8000) returns 0 and leaves last_seq, total_packets,
\* total_lost and cycles unchanged.
C5_ReorderIgnored ==
    (PushedOnInitialized /\ PushDelta >= HalfRange) =>
        /\ pushRet = 0
        /\ trk.lastSeq = prevTrk.lastSeq
        /\ trk.totalPkts = prevTrk.totalPkts
        /\ trk.totalLost = prevTrk.totalLost
        /\ trk.cycles = prevTrk.cycles

\* C6: on an initialized tracker Push(last_seq), a duplicate, returns 0 and
\* changes neither total_packets nor total_lost.
C6_DuplicateIgnored ==
    (PushedOnInitialized /\ PushDelta = 0) =>
        /\ pushRet = 0
        /\ trk.totalPkts = prevTrk.totalPkts
        /\ trk.totalLost = prevTrk.totalLost

\* C10: on an initialized tracker a Push with 1 <= delta < 0x8000 returns
\* delta - 1, adds delta - 1 to total_lost, adds 1 to total_packets and
\* sets last_seq to the pushed sequence number.
C10_ForwardPush ==
    (PushedOnInitialized /\ PushDelta >= 1 /\ PushDelta < HalfRange) =>
        /\ pushRet = PushDelta - 1
        /\ trk.totalLost = prevTrk.totalLost + (PushDelta - 1)
        /\ trk.totalPkts = prevTrk.totalPkts + 1
        /\ trk.lastSeq = pushSeq

\* C10 witness: the pushes 100, 105 of the specification's example
C10_Witness ==
    /\ PushedOnInitialized
    /\ prevTrk.lastSeq = 100
    /\ pushSeq = 105
    /\ pushRet = 4
    /\ trk.totalLost = prevTrk.totalLost + 4

\* C11: on an initialized tracker cycles grows by exactly 1 on a Push with
\* 1 <= delta < 0x8000 whose seq is numerically below last_seq, and is left
\* alone by every other Push.
C11_CyclesOnWrapOnly ==
    PushedOnInitialized =>
        trk.cycles = prevTrk.cycles +
            (IF PushDelta >= 1 /\ PushDelta < HalfRange /\ pushSeq < prevTrk.lastSeq
             THEN 1 ELSE 0)

\* ------------------------------------------- orchestrator properties ----
\* the session task of c is between its activeConnects.Add(1) and its
\* activeConnects.Add(-1)
CountedActive(c) ==
    task[c].pc \notin {"idle", "connect", "rwconnect", "bad", "exited"}

\* the session task of c has been spawned and has not returned
Spawned(c) == task[c].pc \notin {"idle", "exited"}

\* C12: active is never negative and equals, at every instant, the number
\* of session tasks (runConnection, runBadClient, addConnection) between
\* their increment and their decrement; a task that has returned is not
\* counted any more.
C12_ActiveBalanced ==
    /\ runner.active >= 0
    /\ runner.active = Cardinality({c \in Sessions : CountedActive(c)})

\* C12 witness: one session task has returned after it was counted (its
\* Run ended with an error) while a bad client is active
C12_Witness ==
    /\ runner.active = 1
    /\ \E c, d \in Sessions :
          /\ task[c].pc = "exited" /\ task[c].runErr = "error"
          /\ task[d].pc = "badrun"

Max(a, b) == IF a > b THEN a ELSE b

\* C14: the concurrency cap NewRunner creates for the target N is
\* clamp(N/10, 10000, 50000) = max(10000, min(N/10, 50000)).
C14_CapIsClamp ==
    maxConcurrent(config.Readers) =
        Max(10000, Min(config.Readers \div 10, 50000))

\* C15: with a cooperating server, no cancellation and sessions that outlive
\* the ramp, the number of active sessions eventually reaches the target
\* (or the ramp leaves the iterations that are followed).
C15_ReachesTarget ==
    <>(runner.active = config.Readers \/ runner.created >= MaxRamp)

\* C16: a session whose context was done when its media phase ended is not
\* counted in total_failures: its Run does not return an error that
\* runConnection or addConnection counts.
C16_CancelledNotCounted ==
    \A c \in Sessions :
       (task[c].pc = "exited" /\ wire[c].playing /\ task[c].ctxAtExit) =>
           task[c].runErr # "error"

\* ------------------------------------------- control-channel properties -
\* the methods of Run's handshake
HandshakeMethods == {"OPTIONS", "DESCRIBE", "SETUP0", "SETUP1", "PLAY"}

\* the methods of the requests written on c's control connection, in write
\* order
Methods(c) == [i \in 1..Len(wire[c].tx) |-> wire[c].tx[i].m]

\* the handshake requests among them
HandshakeWritten(c) ==
    SelectSeq(Methods(c), LAMBDA m : m \in HandshakeMethods)

IsPrefix(s, t) == Len(s) <= Len(t) /\ \A i \in 1..Len(s) : s[i] = t[i]

\* the session goroutine has read the response to PLAY and found it good
PlayAccepted(c) ==
    /\ wire[c].playing
    /\ ~(task[c].pc \in {"send", "read"} /\ task[c].req.m = "PLAY")

\* a keep-alive has been built or written, or the ticker has fired
KeepAliveStarted(c) ==
    \/ \E i \in 1..Len(wire[c].tx) : wire[c].tx[i].m = "GET_PARAMETER"
    \/ \E k \in KAs : ka[c].g[k] # "none"
    \/ ka[c].nticks > 0

\* the session goroutine is in, or has been in, the media loop
MediaStarted(c) ==
    \/ task[c].pc \in {"loop", "frame", "uloop", "uread", "agg"}
    \/ client[c].tracker.initialized
    \/ task[c].handed > 0

\* no keep-alive and no media read before the PLAY response was accepted
NothingBeforePlay(c) == (KeepAliveStarted(c) \/ MediaStarted(c)) => PlayAccepted(c)

\* the responses the server sent on c's connection that nobody has read
UnreadResponses(c) ==
    Len(SelectSeq(wire[c].rx, LAMBDA tok : tok.k = "resp"))

\* the handshake requests written so far are in the order of Run: OPTIONS,
\* DESCRIBE, SETUP trackID=0, SETUP trackID=1 if it was written at all, PLAY
HandshakeOrdered(c) ==
    \/ IsPrefix(HandshakeWritten(c),
                <<"OPTIONS", "DESCRIBE", "SETUP0", "SETUP1", "PLAY">>)
    \/ HandshakeWritten(c) = <<"OPTIONS", "DESCRIBE", "SETUP0", "PLAY">>

\* C17 as stated: the handshake requests are written in the order OPTIONS,
\* DESCRIBE, SETUP trackID=0, SETUP trackID=1, PLAY, each one only after the
\* server's response to the one before it was received, and nothing of the
\* keep-alive or the media phase happens before PLAY was accepted.
C17_HandshakeInOrder ==
    \A c \in Sessions :
       /\ HandshakeOrdered(c)
       /\ \A i \in 2..Len(wire[c].tx) :
             wire[c].tx[i].m \in HandshakeMethods => wire[c].answered >= i - 1
       /\ NothingBeforePlay(c)

\* C17 as the code has it: PLAY is also written after a SETUP trackID=1
\* whose read failed on a closed connection, without a response to it;
\* SETUP trackID=1 is written only with a session-id. Everything else is as
\* stated, and while a handshake request is the last one written nothing
\* but its own response is unread.
C17_HandshakeInOrderOrSetup1Failed ==
    \A c \in Sessions :
       /\ HandshakeOrdered(c)
       /\ \A i \in 1..Len(wire[c].tx) :
             wire[c].tx[i].m = "SETUP1" => client[c].session # ""
       /\ \A i \in 2..Len(wire[c].tx) :
             wire[c].tx[i].m \in HandshakeMethods =>
                \/ /\ wire[c].answered >= i - 1
                   /\ i = Len(wire[c].tx) =>
                         UnreadResponses(c) <= wire[c].answered - (i - 1)
                \/ /\ wire[c].tx[i].m = "PLAY"
                   /\ wire[c].tx[i - 1].m = "SETUP1"
                   /\ wire[c].srvClosed
       /\ NothingBeforePlay(c)

\* C17 witness: a session wrote all five handshake requests, PLAY was
\* accepted, a keep-alive was written after it and media was processed
C17_Witness ==
    \E c \in Sessions :
       /\ Len(wire[c].tx) >= 6
       /\ HandshakeWritten(c) = <<"OPTIONS", "DESCRIBE", "SETUP0", "SETUP1", "PLAY">>
       /\ wire[c].tx[6].m = "GET_PARAMETER"
       /\ PlayAccepted(c)
       /\ client[c].tracker.initialized

\* Run of session c returned an error before the PLAY response was accepted
HandshakeFailed(c) == task[c].runErr = "error" /\ ~wire[c].playing

\* C18: a session whose handshake failed at OPTIONS, DESCRIBE, SETUP
\* trackID=0 or PLAY has written no handshake request after the failed one
\* and, once it can go no further, has returned to the orchestrator, which
\* counted it in total_failures.
C18_HandshakeFailureCounted ==
    /\ \A c \in Sessions :
          HandshakeFailed(c) =>
             /\ HandshakeOrdered(c)
             /\ task[c].req.m \in HandshakeMethods =>
                   (wire[c].tx = <<>> \/
                    wire[c].tx[Len(wire[c].tx)].m \in HandshakeMethods)
             /\ Quiesced(c) => task[c].pc = "exited"
    /\ runner.totalFailures >=
          Cardinality({c \in Sessions : HandshakeFailed(c) /\ Quiesced(c)})

\* the goroutines of session c (0: the session goroutine, k: keep-alive
\* goroutine k) that have written a request and have not finished reading
\* its response
Outstanding(c) ==
    (IF task[c].pc = "read" THEN {0} ELSE {})
    \cup {k \in KAs : ka[c].g[k] = "read"}

\* C19: at most one request is outstanding per session: no goroutine is
\* between the Write of its request and the end of its readResponse while
\* another one is, and the one that is holds the session mutex.
C19_OneOutstanding ==
    \A c \in Sessions :
       /\ Cardinality(Outstanding(c)) <= 1
       /\ Outstanding(c) # {} => client[c].mu # "free"

\* C19 witness: a keep-alive goroutine has written its GET_PARAMETER and
\* waits for the response while a second one, started by the next tick,
\* has its request built and waits for the mutex
C19_Witness ==
    \E c \in Sessions : \E j, k \in KAs :
       /\ j # k
       /\ ka[c].g[j] = "read"
       /\ ka[c].g[k] = "send"
       /\ wire[c].tx[Len(wire[c].tx)] = ka[c].req[j]

\* C20: the CSeq values of the requests written on one control connection
\* start at 1 and are strictly increasing in write order (hence without
\* duplicate), the GET_PARAMETER requests of the keep-alive goroutines and
\* TEARDOWN included.
C20_CSeqIncreasing ==
    \A c \in Sessions :
       /\ wire[c].tx # <<>> => wire[c].tx[1].cseq = 1
       /\ \A i, j \in 1..Len(wire[c].tx) :
             i < j => wire[c].tx[i].cseq < wire[c].tx[j].cseq

\* ------------------------------------------- run properties -------------
\* C21: Run (of the Runner or of the RealWorldSimulator) has not returned
\* while the spawner, the connection manager, the load pattern generator or
\* a session task it started is still running.
C21_RunWaitsForTasks ==
    runner.pc = "returned" =>
        /\ runner.spawner = "done"
        /\ runner.gen \in {"none", "done"}
        /\ \A c \in Sessions : task[c].pc \in {"idle", "exited"}
        /\ runner.wg = 0

\* C21 witness: Run has returned after the cancel, and a session that was
\* streaming when the cancel fired has returned before it
C21_Witness ==
    /\ runner.pc = "returned"
    /\ \E c \in Sessions :
          /\ task[c].pc = "exited"
          /\ wire[c].playing
          /\ task[c].runErr = "canceled"

\* C22: the spawner dispatches at most N session tasks, and N of them when
\* it has returned without the run being cancelled; a task is dispatched
\* only by the step that follows the semaphore acquisition, which follows
\* the limiter acquisition of the same iteration, and every dispatched task
\* that has not returned holds one semaphore slot.
C22_DispatchesAtMostN ==
    [][/\ runner'.created <= config.Readers
       /\ (runner'.spawner = "done" /\ ~env'.cancelled) =>
             runner'.created = config.Readers
       /\ runner'.created # runner.created =>
             /\ runner'.created = runner.created + 1
             /\ runner.spawner = "acquired"
       /\ (runner'.spawner = "acquired" /\ runner.spawner # "acquired") =>
             /\ runner.spawner = "limited"
             /\ runner'.semaphore = runner.semaphore + 1
       /\ (runner'.spawner = "limited" /\ runner.spawner # "limited") =>
             runner.spawner = "run"
       /\ runner'.semaphore =
             (runner'.wg - (IF runner'.spawner = "done" THEN 0 ELSE 1))
             + (IF runner'.spawner = "acquired" THEN 1 ELSE 0)]_vars

\* C22 witness: the spawner has returned after dispatching all N >= 2 tasks
\* of a run that was not cancelled, and one task has returned already
C22_Witness ==
    /\ runner.spawner = "done"
    /\ ~env.cancelled
    /\ config.Readers >= 2
    /\ runner.created = config.Readers
    /\ LiveTasks = config.Readers - 1

\* the target lies within [avg*(1-variance), avg*(1+variance)]
TargetInBounds ==
    /\ runner.target >= minTarget(config.AvgConnections, config.Variance)
    /\ runner.target <= maxTarget(config.AvgConnections, config.Variance)

\* C23 as stated: at every instant after the start of the simulation the
\* target lies within [avg*(1-variance), avg*(1+variance)], truncated.
C23_TargetInBoundsAlways == TargetInBounds

\* C23 as the code has it: the target lies within the bounds from the
\* moment generateLoadPattern has stored its initial target; until then it
\* is 0.
C23_TargetInBoundsOnceStored ==
    IF runner.gen = "start" THEN runner.target = 0 ELSE TargetInBounds

\* C23 witness: avg = 500, variance = 0.3 and a tick whose new target was
\* cut down to the upper bound 650
C23_Witness ==
    /\ config.AvgConnections = 500
    /\ config.Variance = 30
    /\ runner.gen = "run"
    /\ runner.target = 650
    /\ \E hour \in Hours, draw \in Draws :
          newTarget(500, 30, hour, draw) > 650

\* C24: on a tick of the controller, with diff = target - active read at
\* the tick: for diff > 0 min(diff, 50) tasks are started and nothing is
\* cancelled, for diff < 0 min(-diff, 20, tracked) tracked sessions are
\* cancelled and nothing is started, for diff = 0 nothing changes.
C24_AdjustByDiff ==
    [][runner'.tick # runner.tick =>
         LET diff == runner.target - runner.active
             n == Min(Min(-diff, 20), runner.tracked)
         IN  /\ diff > 0 =>
                   /\ runner'.connecting = runner.connecting + Min(diff, 50)
                   /\ runner'.tracked = runner.tracked
                   /\ runner'.cancelling = runner.cancelling
             /\ diff < 0 =>
                   /\ runner'.connecting = runner.connecting
                   /\ runner'.tracked = runner.tracked - n
                   /\ runner'.cancelling = runner.cancelling + n
             /\ diff = 0 =>
                   /\ runner'.connecting = runner.connecting
                   /\ runner'.tracked = runner.tracked
                   /\ runner'.cancelling = runner.cancelling
             /\ runner'.active = runner.active
             /\ runner'.counted = runner.counted]_vars

\* C24 witness: with target 25 and 50 active sessions a tick has cancelled
\* 20 of the 50 tracked ones (diff = -25, cut to 20)
C24_Witness ==
    /\ runner.target = 25
    /\ runner.active = 50
    /\ runner.cancelling = 20
    /\ runner.tracked = 30
    /\ runner.connecting = 0

\* C25: with a constant target and a server that accepts every connection,
\* active becomes equal to the target and stays equal to it.
C25_ActiveSettlesAtTarget == <>[](runner.active = runner.target)

\* tasks of SpecRetry whose Connect has succeeded
Connected(c) == task[c].pc = "run" \/ task[c].runErr # "none"

\* C26: a session task makes at most 3 connect attempts and none after the
\* first success; after 3 failed attempts it has counted one failure, has
\* released its slot and has left total_connects, active and the latency
\* statistics alone; a task that returned on a cancelled context between
\* attempts has counted no failure.
C26_RetryLoop ==
    /\ \A c \in Sessions :
          /\ task[c].attempts <= maxRetries
          /\ Connected(c) => task[c].attempts = task[c].retry + 1
          /\ ~Connected(c) =>
                /\ task[c].attempts =
                      task[c].retry +
                      (IF task[c].pc = "exited" /\ task[c].failures = 1
                       THEN 1 ELSE 0)
                /\ task[c].failures = 1 =>
                      task[c].pc = "exited" /\ task[c].attempts = maxRetries
                /\ task[c].failures <= 1
                /\ task[c].pc = "exited" /\ task[c].attempts < maxRetries =>
                      env.cancelled /\ task[c].failures = 0
    /\ runner.totalConnects = Cardinality({c \in Sessions : Connected(c)})
    /\ runner.connectCount = runner.totalConnects
    /\ runner.active = Cardinality({c \in Sessions : task[c].pc = "run"})
    /\ runner.semaphore =
          Cardinality({c \in Sessions : task[c].pc # "exited"})

\* C26 witness: one task has given up after three failed attempts, the
\* other has returned between two attempts of a cancelled run
C26_Witness ==
    \E c, d \in Sessions :
       /\ task[c].pc = "exited" /\ task[c].attempts = maxRetries
       /\ task[c].failures = 1 /\ ~Connected(c)
       /\ task[d].pc = "exited" /\ task[d].attempts = 2
       /\ task[d].failures = 0 /\ ~Connected(d)
       /\ runner.totalFailures = 1 /\ runner.semaphore = 0

\* C27: a session whose handshake failed after a successful connect is
\* counted in total_failures only when maxRetries establishment attempts
\* have been made for it.
C27_HandshakeErrorRetried ==
    \A c \in Sessions :
       task[c].runErr = "handshake" /\ task[c].failures > 0 =>
          task[c].attempts = maxRetries

\* C28: the adaptive check runs only at a positive multiple of 10
\* dispatches and at least 2 s after the last check; it halves the rate
\* (not below 1/s) for more than 2 failures since the last check, raises it
\* by 20% (not above the configured rate) for no failure and a rate below
\* the configured one, leaves it otherwise, and sets the failure baseline
\* to total_failures; without a check rate and baseline stay.
C28_AdaptiveCheck ==
    [][IF runner'.checks # runner.checks
       THEN /\ runner.created > 0
            /\ runner.created % 10 = 0
            /\ runner.elapsed >= 2
            /\ LET f == runner.totalFailures - runner.lastFailures
               IN  runner'.limit =
                      IF f > 2
                      THEN Max(runner.limit \div 2, PerSecond)
                      ELSE IF f = 0 /\ runner.limit < config.Rate
                           THEN Min((runner.limit * 12) \div 10, config.Rate)
                           ELSE runner.limit
            /\ runner'.lastFailures = runner.totalFailures
       ELSE /\ runner'.limit = runner.limit
            /\ runner'.lastFailures = runner.lastFailures]_vars

\* C28 witness: configured for 1.1/s, the first check has found 3 failures
\* and halved the rate to the floor of 1/s, the second has found no new
\* failure and raised it to the configured rate
C28_Witness ==
    /\ config.Rate = 1100
    /\ runner.checks = 2
    /\ runner.created = 20
    /\ runner.lastFailures = 3
    /\ runner.limit = 1100

\* C29: a session with a failed keep-alive request (its error is in the
\* error channel) and a context that is not done does not stay in its media
\* loop: once it can take no step on its own, its Run has returned an error
\* to the orchestrator, which counted it.
C29_KeepAliveFailureReturns ==
    \A c \in Sessions :
       (ka[c].errCh /\ ~task[c].ctxDone /\ ~ENABLED SessionNext(c)) =>
           /\ task[c].pc = "exited"
           /\ task[c].runErr = "error"
           /\ runner.totalFailures >= 1

\* C30: every interleaved frame the session reads in TCP mode is handed to
\* RTP processing once if it is on channel 0 or 2 and has at least 12 bytes
\* of payload, and not at all otherwise.
C30_FramesToRTP ==
    [][\A c \in Sessions :
          (/\ task[c].pc = "frame"
           /\ wire[c].rx # <<>>
           /\ Head(wire[c].rx).k = "frame"
           /\ wire'[c].rx = Tail(wire[c].rx)) =>
              LET f == Head(wire[c].rx)
                  rtp == f.ch \in {0, 2} /\ f.len >= MinRTPLen
              IN  /\ task'[c].handed =
                         task[c].handed + (IF rtp THEN f.len ELSE 0)
                  /\ client'[c].tracker.totalPkts =
                         client[c].tracker.totalPkts + (IF rtp THEN 1 ELSE 0)]_vars

\* ------------------------------------------- statistics properties ------
\* the latencies the tasks of SpecLat record
Recorded == {task[c].lat : c \in Sessions}

\* C31: once every task has finished recording its latency, minLatency and
\* maxLatency are the smallest and the largest recorded latency,
\* connectCount is the number of recordings, connectLatency their sum, and
\* connectCount equals totalConnects.
C31_LatencyStatistics ==
    (\A c \in Sessions : task[c].pc = "run") =>
        /\ runner.minLatency \in Recorded
        /\ \A l \in Recorded : runner.minLatency <= l
        /\ runner.maxLatency \in Recorded
        /\ \A l \in Recorded : runner.maxLatency >= l
        /\ runner.connectCount = NumSessions
        /\ runner.connectLatency =
              SumOverSessions([c \in Sessions |-> task[c].lat])
        /\ runner.connectCount = runner.totalConnects
        /\ runner.samples = NumSessions

\* C31 witness: all tasks have recorded, two of them different latencies
C31_Witness ==
    /\ \A c \in Sessions : task[c].pc = "run"
    /\ \E c, d \in Sessions : task[c].lat = 9 /\ task[d].lat = 0
    /\ runner.minLatency = 0
    /\ runner.maxLatency = 9

\* the sum of a tally over the types in S
RECURSIVE SumTally(_, _)
SumTally(f, S) ==
    IF S = {} THEN 0
    ELSE LET t == CHOOSE x \in S : TRUE IN f[t] + SumTally(f, S \ {t})

\* C32: once every bad client has registered, the per-type tallies add up
\* to the badClients counter.
C32_TallyMatchesCounter ==
    (\A c \in Sessions : task[c].pc = "badrun") =>
        SumTally(runner.badClientTypes, BadTypes) = runner.badClients

\* the controller starts session task c with the given entry point
RWStarts(c, entry) == RWAdjust /\ task[c].pc = "idle" /\ task'[c].pc = entry

\* C33: in real-world mode with bad clients enabled, wherever the controller
\* can start a session task it can start a bad client in its place (which
\* then counts in active and bad_clients and not in total_connects).
C33_BadClientInRealWorld ==
    \A c \in Sessions :
       (config.RealWorld /\ ENABLED RWStarts(c, "rwconnect")) =>
           ENABLED RWStarts(c, "bad")

\* C34: a Push returns at most 0x7FFF - 1 = 32766, and total_lost grows by
\* at most that much in one Push.
C34_LossPerPushBounded ==
    /\ pushRet <= HalfRange - 2
    /\ trk.totalLost - prevTrk.totalLost <= HalfRange - 2

\* C35: the limiter's rate never exceeds the configured rate.
C35_RateAtMostConfigured == runner.limit <= config.Rate

\* C36: in TCP-interleaved mode, as long as the server has answered every
\* request with 200 OK and a session-id, has not closed the connection, and
\* no context is done, no keep-alive has failed, whatever interleaved frames
\* the server has sent ahead of its responses.
C36_FramesDoNotFailKeepAlive ==
    (config.Transport = "tcp" /\ env.faults = 0 /\ ~env.cancelled) =>
        \A c \in Sessions : ~ka[c].errCh

\* once closed is set nothing is written on the control connection, closed
\* stays set, and a keep-alive goroutine that leaves its
\* sendRequestWithResponse has an error
ClosedStopsWrites ==
    \A c \in Sessions :
       client[c].closed =>
          /\ wire'[c].tx = wire[c].tx
          /\ client'[c].closed
          /\ \A k \in KAs :
                (ka[c].g[k] = "send" /\ ka'[c].g[k] # "send") =>
                    (ka'[c].g[k] = "done" /\ ka'[c].errCh)

C38_LiveTasksWithinTarget ==
    runner.connecting + runner.active <= runner.target

\* the sessions in the simulator's connections map
Tracked == {c \in Sessions : task[c].inMap}

\* C39: every entry of the connections map belongs to a session that has
\* incremented active and not decremented it, so the map is not larger than
\* active; an entry leaves the map when its session returns or when the
\* controller cancels it, and an entry that has left is not stored again
\* (the controller, which cancels what it finds in the map, cancels no
\* session twice).
C39_MapWithinActive ==
    /\ [](/\ \A c \in Tracked : CountedActive(c)
          /\ config.RealWorld => Cardinality(Tracked) <= runner.active)
    /\ [][\A c \in Sessions :
             /\ (task[c].inMap /\ ~task'[c].inMap) =>
                   \/ task'[c].pc = "exited"
                   \/ task'[c].ctxDone /\ task'[c].pc = task[c].pc
             /\ (~task[c].inMap /\ task'[c].inMap) =>
                   task[c].pc = "rwconnect"]_vars

\* C39 witness: the controller has cancelled a session and deleted its
\* entry while the run goes on; the session has not returned yet and still
\* counts in active
C39_Witness ==
    /\ config.RealWorld
    /\ ~env.cancelled
    /\ \E c \in Sessions :
          /\ ~task[c].inMap
          /\ task[c].ctxDone
          /\ CountedActive(c)
    /\ Tracked = {}
    /\ runner.active = 1

\* one step in which session c's control connection is opened or one of its
\* handshake requests is written
HandshakeProgress(c) ==
    \/ client[c].conn # "open" /\ client'[c].conn = "open"
    \/ HandshakeWritten(c)' # HandshakeWritten(c)

\* C40: once the run's context is cancelled, the real-world controller
\* starts no further session task, and no session task opens a control
\* connection or writes OPTIONS, DESCRIBE, SETUP or PLAY.
C40_NothingStartsAfterCancel ==
    [][(config.RealWorld /\ env.cancelled) =>
          /\ runner'.created = runner.created
          /\ \A c \in Sessions : ~HandshakeProgress(c)]_vars

=============================================================================
